---- MODULE Spec2Model ----
(***************************************************************************)
(* Leaderboard update engine: the Kafka consumer of score-submitted events *)
(* (leaderboardUpdater: startConsumer / eachBatch / stopConsumer), the     *)
(* Redis operations it issues and the rebuild (replay) detectors.          *)
(***************************************************************************)
EXTENDS Integers, Sequences, FiniteSets, TLC

(* ---------------------------------------------------------------------- *)
(* Bounds and input domains                                                *)
(* ---------------------------------------------------------------------- *)

\* Largest number of messages ever appended to the score-submitted topic.
MaxLog == 3

\* Largest number of times eachBatch rejects.
MaxThrows == 1

Players == {"p1", "p2"}
GameModes == {1, 2}
\* The (playerId, gameMode) keys events are drawn from: two keys of one
\* player, two keys of one game mode, two keys that share neither.
Keys == {<<"p1", 1>>, <<"p1", 2>>, <<"p2", 1>>}

(* ---------------------------------------------------------------------- *)
(* Program constants                                                       *)
(* ---------------------------------------------------------------------- *)

EMPTY_BATCH_THRESHOLD == 3
REBUILD_IDLE_TIMEOUT == 5000
\* Period of the setInterval that runs the rebuild idle check.
CHECK_INTERVAL == 1000
DAILY_TTL == 7 * 24 * 60 * 60
WEEKLY_TTL == 28 * 24 * 60 * 60

\* JavaScript null for a rank (ranks are 1-indexed, so 0 is free).
NullRank == 0
\* JavaScript null for lastBatchProcessedTime.
NullTime == -1

(* ---------------------------------------------------------------------- *)
(* Messages of the score-submitted topic                                   *)
(* ---------------------------------------------------------------------- *)

\* A message of the topic.  json tells whether message.value parses as a
\* JSON object; the other fields are what JSON.parse yields.  scoreKind is
\* the JavaScript type of the score field: "number", "undefined", "null",
\* "empty" (the string '') or "text" (a string that is not a number).
ScoreEvent(playerId, gameMode, score, username) ==
  [json |-> TRUE, playerId |-> playerId, username |-> username,
   gameMode |-> gameMode, score |-> score, scoreKind |-> "number"]

\* The valid events the producer sends: two of one key with different
\* scores and usernames, one of the same player in another game mode, one
\* of another player in the same game mode.
ScoreEvents ==
  {ScoreEvent("p1", 1, 1, "a"), ScoreEvent("p1", 1, 2, "b"),
   ScoreEvent("p1", 2, 2, "b"), ScoreEvent("p2", 1, 2, "b")}

MalformedEvents ==
  {[json |-> TRUE, playerId |-> "p1", username |-> "a", gameMode |-> 1,
    score |-> 0, scoreKind |-> "null"]}

Messages == ScoreEvents \cup MalformedEvents

\* The parse loop's test of one message: JSON.parse does not throw,
\* playerId is truthy, score is not undefined / null / ''.
IsValidEvent(m) ==
  /\ m.json
  /\ m.playerId # ""
  /\ m.scoreKind \notin {"undefined", "null", "empty"}

\* `${event.playerId}:${event.gameMode}`
KeyOf(e) == <<e.playerId, e.gameMode>>

(* ---------------------------------------------------------------------- *)
(* Redis: sorted sets, hashes                                              *)
(* ---------------------------------------------------------------------- *)

\* Lexicographic order of the member ids (sorted-set tie-break).
MemberOrd == [p \in Players |-> IF p = "p1" THEN 1 ELSE 2]

EmptyZSet == [m \in {} |-> 0]

\* ZINCRBY key delta member: creates the member when absent.
ZIncrBy(z, delta, member) ==
  IF member \in DOMAIN z
    THEN [z EXCEPT ![member] = @ + delta]
    ELSE [m \in (DOMAIN z) \cup {member} |->
            IF m = member THEN delta ELSE z[m]]

\* ZREVRANK key member: 0-indexed position in descending order of score,
\* equal scores in descending lexicographic order of the member.
ZRevRank(z, member) ==
  Cardinality({m \in DOMAIN z :
                 \/ z[m] > z[member]
                 \/ (z[m] = z[member] /\ MemberOrd[m] > MemberOrd[member])})

\* redisService.getPlayerRank(gameMode, playerId, "global"): null when the
\* member is absent, else {rank: zrevrank + 1, score}.
NoRankData == [rank |-> NullRank, score |-> 0]

GetPlayerRank(store, gameMode, playerId) ==
  LET z == store.global[gameMode] IN
    IF playerId \notin DOMAIN z
      THEN NoRankData
      ELSE [rank |-> store.crowd[gameMode] + ZRevRank(z, playerId) + 1,
            score |-> z[playerId]]

\* oldRankData?.rank || null
RankOrNull(rankData) == rankData.rank

\* The store after initializeGameModes and before any score event.
\*   players         player:{id} hashes of the players of the model
\*   global, ...     leaderboard sorted sets, members of the model only
\*   crowd           per game mode, the number of other members of the
\*                   global leaderboard, all with scores above any score the
\*                   members of the model reach; each has a player:{id} hash
\*   gameModes       ids listed in the game_modes hash
\*   lastSubmission  players with a player:{id}:last_submission key
\*   globalTtl, ...  time to live of each leaderboard key in seconds, 0
\*                   when the key has none
EmptyStore ==
  [players |-> [p \in {} |-> 0],
   crowd   |-> [g \in GameModes |-> 0],
   gameModes |-> GameModes,
   lastSubmission |-> {},
   global  |-> [g \in GameModes |-> EmptyZSet],
   daily   |-> [g \in GameModes |-> EmptyZSet],
   weekly  |-> [g \in GameModes |-> EmptyZSet],
   globalTtl |-> [g \in GameModes |-> 0],
   dailyTtl  |-> [g \in GameModes |-> 0],
   weeklyTtl |-> [g \in GameModes |-> 0]]

\* redis.exists(`player:${playerId}`)
PlayerExists(store, playerId) == playerId \in DOMAIN store.players

\* pipeline.hset(`player:${playerId}`, {username, total_score: 0,
\* games_played: 0, created_at}): sets these fields, whatever was there.
HSetNewPlayer(store, playerId, username) ==
  [store EXCEPT !.players =
     [p \in (DOMAIN store.players) \cup {playerId} |->
        IF p = playerId
          THEN [username |-> username, total_score |-> 0, games_played |-> 0]
          ELSE store.players[p]]]

\* pipeline.hset(`player:${playerId}`, "username", username)
HSetUsername(store, playerId, username) ==
  [store EXCEPT !.players =
     [p \in (DOMAIN store.players) \cup {playerId} |->
        IF p = playerId
          THEN IF p \in DOMAIN store.players
                 THEN [store.players[p] EXCEPT !.username = username]
                 ELSE [username |-> username, total_score |-> 0,
                       games_played |-> 0]
          ELSE store.players[p]]]

\* A command of a pipeline whose increment is not a number gets an error
\* reply in the result of pipeline.exec and changes nothing; exec itself
\* resolves and the commands queued after it still run.
IsNumber(scoreKind) == scoreKind = "number"

\* pipeline.zincrby(key, score, playerId) on one sorted set.
ZIncrByScore(z, e) ==
  IF IsNumber(e.scoreKind) THEN ZIncrBy(z, e.score, e.playerId) ELSE z

\* DailyUpdate with the EXPIRE given the global key.
Mut_DailyUpdate(store, e) ==
  LET z == ZIncrByScore(store.daily[e.gameMode], e) IN
    [store EXCEPT !.daily[e.gameMode] = z,
                  !.globalTtl[e.gameMode] =
                     IF DOMAIN store.global[e.gameMode] # {}
                       THEN DAILY_TTL ELSE @]

\* pipeline.zincrby(dailyKey, score, playerId); pipeline.expire(dailyKey,
\* 7 days): EXPIRE sets the time to live of a key that exists.
DailyUpdate(store, e) ==
  LET z == ZIncrByScore(store.daily[e.gameMode], e) IN
    [store EXCEPT !.daily[e.gameMode] = z,
                  !.dailyTtl[e.gameMode] =
                     IF DOMAIN z # {} THEN DAILY_TTL ELSE @]

\* pipeline.hincrby total_score score; pipeline.hincrby games_played 1
HIncrStats(store, playerId, score, scoreKind) ==
  [store EXCEPT !.players[playerId] =
     [@ EXCEPT !.total_score = IF IsNumber(scoreKind) THEN @ + score ELSE @,
               !.games_played = @ + 1]]

\* redisService.updateWeeklyLeaderboard: skipped when Number(score) is NaN
\* or 0, else ZINCRBY on the weekly bucket and EXPIRE 28 days.
UpdateWeeklyLeaderboard(store, gameMode, playerId, score, scoreKind) ==
  IF ~IsNumber(scoreKind) \/ score = 0
    THEN store
    ELSE [store EXCEPT
            !.weekly[gameMode] = ZIncrBy(@, score, playerId),
            !.weeklyTtl[gameMode] = WEEKLY_TTL]

(* ---------------------------------------------------------------------- *)
(* eachBatch: the Redis commands of one event                              *)
(* ---------------------------------------------------------------------- *)

\* HotEventOps without the ZINCRBY on the global leaderboard.
Mut_HotEventOps(store, e, playerExists) ==
  LET s0 == UpdateWeeklyLeaderboard(store, e.gameMode, e.playerId, e.score,
                                    e.scoreKind)
      s1 == IF ~playerExists
              THEN HSetNewPlayer(s0, e.playerId, e.username)
              ELSE HSetUsername(s0, e.playerId, e.username)
      s3 == DailyUpdate(s1, e)
  IN HIncrStats(s3, e.playerId, e.score, e.scoreKind)

\* Commands queued on the pipeline for one event of a hot group, and the
\* awaited weekly update, given the result of redis.exists for the player.
HotEventOps(store, e, playerExists) ==
  LET s0 == UpdateWeeklyLeaderboard(store, e.gameMode, e.playerId, e.score,
                                    e.scoreKind)
      s1 == IF ~playerExists
              THEN HSetNewPlayer(s0, e.playerId, e.username)
              ELSE HSetUsername(s0, e.playerId, e.username)
      s2 == [s1 EXCEPT !.global[e.gameMode] = ZIncrByScore(@, e)]
      s3 == DailyUpdate(s2, e)
  IN HIncrStats(s3, e.playerId, e.score, e.scoreKind)

\* One event of a hot group: exists, pipeline, exec.
HotEventPipeline(store, e) ==
  HotEventOps(store, e, PlayerExists(store, e.playerId))

\* StandaloneEventOps with the global score set (ZADD) instead of
\* incremented.
Mut_StandaloneEventOps(store, e, playerExists) ==
  LET s0 == UpdateWeeklyLeaderboard(store, e.gameMode, e.playerId, e.score,
                                    e.scoreKind)
      s1 == IF ~playerExists
              THEN HSetNewPlayer(s0, e.playerId, e.username)
              ELSE HSetUsername(s0, e.playerId, e.username)
      s2 == [s1 EXCEPT !.global[e.gameMode] =
               [m \in (DOMAIN @) \cup {e.playerId} |->
                  IF m = e.playerId THEN e.score ELSE @[m]]]
      s3 == DailyUpdate(s2, e)
  IN HIncrStats(s3, e.playerId, e.score, e.scoreKind)

\* Commands queued on the shared pipeline for one standalone event (the
\* weekly update is issued on the same connection while queueing).
StandaloneEventOps(store, e, playerExists) ==
  LET s0 == UpdateWeeklyLeaderboard(store, e.gameMode, e.playerId, e.score,
                                    e.scoreKind)
      s1 == IF ~playerExists
              THEN HSetNewPlayer(s0, e.playerId, e.username)
              ELSE HSetUsername(s0, e.playerId, e.username)
      s2 == [s1 EXCEPT !.global[e.gameMode] = ZIncrByScore(@, e)]
      s3 == DailyUpdate(s2, e)
  IN HIncrStats(s3, e.playerId, e.score, e.scoreKind)

\* The standalone pipeline: every redis.exists is answered while the
\* commands are queued, that is against the store before pipeline.exec
\* (base); exec then runs the queued commands in order on cur.
RECURSIVE StandalonePipeline(_, _, _)
StandalonePipeline(base, cur, evs) ==
  IF evs = <<>>
    THEN cur
    ELSE StandalonePipeline(
           base,
           StandaloneEventOps(cur, Head(evs),
                              PlayerExists(base, Head(evs).playerId)),
           Tail(evs))

(* ---------------------------------------------------------------------- *)
(* eachBatch: parsing and grouping                                         *)
(* ---------------------------------------------------------------------- *)

\* Messages offset+1 .. offset+n of the log, each tagged with its offset.
RECURSIVE BatchMessages(_, _, _)
BatchMessages(lg, from, n) ==
  IF n = 0
    THEN <<>>
    ELSE <<[json |-> lg[from + 1].json,
            playerId |-> lg[from + 1].playerId,
            username |-> lg[from + 1].username,
            gameMode |-> lg[from + 1].gameMode,
            score |-> lg[from + 1].score,
            scoreKind |-> lg[from + 1].scoreKind,
            offset |-> from + 1]>> \o BatchMessages(lg, from + 1, n - 1)

\* ParseEvents leaving the loop at the first rejected message.
RECURSIVE Mut_ParseEvents(_)
Mut_ParseEvents(messages) ==
  IF messages = <<>> \/ ~IsValidEvent(Head(messages))
    THEN <<>>
    ELSE <<Head(messages)>> \o Mut_ParseEvents(Tail(messages))

\* The parse loop: valid events in arrival order.
ParseEvents(messages) == SelectSeq(messages, IsValidEvent)

\* GroupEvents with the events of the group in reverse order of arrival.
Mut_GroupEvents(evs, key) ==
  LET group == SelectSeq(evs, LAMBDA e : KeyOf(e) = key) IN
    [i \in 1..Len(group) |-> group[Len(group) + 1 - i]]

\* eventGroups.get(key)
GroupEvents(evs, key) == SelectSeq(evs, LAMBDA e : KeyOf(e) = key)

\* Keys of eventGroups in insertion order (first occurrence).
RECURSIVE GroupKeys(_)
GroupKeys(evs) ==
  IF evs = <<>>
    THEN <<>>
    ELSE <<KeyOf(Head(evs))>> \o
         GroupKeys(SelectSeq(Tail(evs),
                             LAMBDA e : KeyOf(e) # KeyOf(Head(evs))))

\* Events of the groups with more than one event, group after group in
\* insertion order: the order in which the sequential loop applies them.
RECURSIVE HotEventsOf(_, _)
HotEventsOf(evs, keys) ==
  IF keys = <<>>
    THEN <<>>
    ELSE (IF Len(GroupEvents(evs, Head(keys))) > 1
            THEN GroupEvents(evs, Head(keys))
            ELSE <<>>) \o HotEventsOf(evs, Tail(keys))

HotEvents(evs) == HotEventsOf(evs, GroupKeys(evs))

\* StandaloneEvents keeping only the first group of length 1.
Mut_StandaloneEvents(evs) ==
  LET all == SelectSeq(evs, LAMBDA e : Len(GroupEvents(evs, KeyOf(e))) = 1)
  IN IF all = <<>> THEN <<>> ELSE <<Head(all)>>

\* standaloneEvents: the events of the groups of length 1.
StandaloneEvents(evs) ==
  SelectSeq(evs, LAMBDA e : Len(GroupEvents(evs, KeyOf(e))) = 1)

\* InitialRanks with null for every key.
Mut_InitialRanks(store, evs) ==
  [k \in {KeyOf(evs[i]) : i \in 1..Len(evs)} |-> NullRank]

\* initialRanks: one getPlayerRank per distinct key before any update.
InitialRanks(store, evs) ==
  [k \in {KeyOf(evs[i]) : i \in 1..Len(evs)} |->
     RankOrNull(GetPlayerRank(store, k[2], k[1]))]

\* The message given to kafkaService.publishLeaderboardUpdated; event is
\* the offset of the score event it is emitted for.
Notification(e, newRank, oldRank) ==
  [gameMode |-> e.gameMode, playerId |-> e.playerId,
   newRank |-> newRank.rank, oldRank |-> oldRank, score |-> newRank.score,
   event |-> e.offset]

\* The top-100 test without the null test on the previous rank.
Mut_TouchesTop100(prevRank, newRank) == prevRank <= 100 \/ newRank <= 100

\* Top-100 test before cdnCacheService.invalidateCache.
TouchesTop100(prevRank, newRank) ==
  (prevRank # NullRank /\ prevRank <= 100) \/ newRank <= 100

\* The array of paths given to cdnCacheService.invalidateCache.
Top100Paths(gameMode) ==
  <<<<"/api/leaderboard/", gameMode, "/top100">>,
    <<"/api/leaderboard/", gameMode, "?limit=100&offset=0">>,
    <<"/api/leaderboard/", gameMode, "?type=global&limit=100&offset=0">>>>

(* ---------------------------------------------------------------------- *)
(* kafkaService.publishLeaderboardUpdated, cdnCacheService                 *)
(* ---------------------------------------------------------------------- *)

\* What producer.send does with a leaderboard-updated message.
PublishOutcomes == {"ok", "fail"}

\* PublishRejects with the error of producer.send thrown again.
Mut_PublishRejects(outcome) == outcome = "fail"

\* Whether the promise of publishLeaderboardUpdated rejects: the error of
\* producer.send is caught and logged, so it never does.
PublishRejects(outcome) == FALSE

\* One call of publishLeaderboardUpdated: the message, and whether it
\* reached the topic.
PublishCall(note, outcome) ==
  [gameMode |-> note.gameMode, playerId |-> note.playerId,
   newRank |-> note.newRank, oldRank |-> note.oldRank, score |-> note.score,
   event |-> note.event, delivered |-> (outcome = "ok")]

\* CDN_INVALIDATION_URL ("unset", "set" to a URL, or "invalid": set to
\* text new URL() rejects), CDN_API_KEY and CDN_PROVIDER.
CdnUnconfigured == [url |-> "unset", key |-> "unset", provider |-> "cloudflare"]

CdnConfigs ==
  {CdnUnconfigured,
   [url |-> "set", key |-> "unset", provider |-> "cloudflare"],
   [url |-> "unset", key |-> "set", provider |-> "cloudflare"],
   [url |-> "set", key |-> "set", provider |-> "cloudflare"],
   [url |-> "invalid", key |-> "set", provider |-> "cloudflare"],
   [url |-> "set", key |-> "set", provider |-> "fastly"],
   [url |-> "set", key |-> "set", provider |-> "cloudfront"],
   [url |-> "set", key |-> "set", provider |-> "akamai"]}

\* What the CDN does with the purge request: a 2xx response, another
\* response, or an 'error' event on the request.
CdnResponses == {"2xx", "non2xx", "error"}

\* invalidateCloudflare / invalidateFastly: new URL, then the request; the
\* promise resolves true on 2xx, false on another status, rejects on error.
InvalidateByRequest(config, response) ==
  IF config.url = "invalid"
    THEN [requested |-> FALSE, result |-> "raise"]
    ELSE [requested |-> TRUE,
          result |-> CASE response = "2xx" -> "true"
                       [] response = "non2xx" -> "false"
                       [] OTHER -> "raise"]

\* The try block of invalidateCache.
InvalidateByProvider(config, response) ==
  CASE config.provider = "cloudflare" -> InvalidateByRequest(config, response)
    [] config.provider = "cloudfront" -> [requested |-> FALSE, result |-> "false"]
    [] config.provider = "fastly" -> InvalidateByRequest(config, response)
    [] OTHER -> [requested |-> FALSE, result |-> "false"]

\* InvalidateCache without the catch.
Mut_InvalidateCache(config, response) ==
  IF config.url = "unset" \/ config.key = "unset"
    THEN [requested |-> FALSE, result |-> "false"]
    ELSE InvalidateByProvider(config, response)

\* cdnCacheService.invalidateCache: whether a request went out and what the
\* call returned ("true", "false") or "raise".
InvalidateCache(config, response) ==
  IF config.url = "unset" \/ config.key = "unset"
    THEN [requested |-> FALSE, result |-> "false"]
    ELSE LET r == InvalidateByProvider(config, response) IN
           IF r.result = "raise"
             THEN [requested |-> r.requested, result |-> "false"]
             ELSE r

\* One call of invalidateCache by the handler for a notification.
PurgeCall(note, config, response) ==
  [event |-> note.event, paths |-> Top100Paths(note.gameMode),
   requested |-> InvalidateCache(config, response).requested,
   result |-> InvalidateCache(config, response).result]

\* The configurations under which invalidateCache sends a request.
SendsRequest(config) ==
  /\ config.url = "set"
  /\ config.key = "set"
  /\ config.provider \in {"cloudflare", "fastly"}

\* What the broker and the CDN do during one publish step of the handler;
\* the CDN's answer varies only where a request reaches it.
Outcomes ==
  {out \in [publish : PublishOutcomes, cdn : CdnConfigs,
            response : CdnResponses] :
     SendsRequest(out.cdn) \/ out.response = "2xx"}

\* Broker up, CDN purge not configured.
NominalOutcome ==
  [publish |-> "ok", cdn |-> CdnUnconfigured, response |-> "2xx"]

\* The publish loop over standaloneEvents after pipeline.exec.
RECURSIVE StandaloneNotifications(_, _, _)
StandaloneNotifications(store, ranks, evs) ==
  IF evs = <<>>
    THEN <<>>
    ELSE LET e == Head(evs)
             nr == GetPlayerRank(store, e.gameMode, e.playerId)
         IN (IF nr # NoRankData /\ nr.rank # ranks[KeyOf(e)]
               THEN <<Notification(e, nr, ranks[KeyOf(e)])>>
               ELSE <<>>) \o StandaloneNotifications(store, ranks, Tail(evs))

(* ---------------------------------------------------------------------- *)
(* State                                                                   *)
(* ---------------------------------------------------------------------- *)

VARIABLES
  log,                      \* the score-submitted topic (one partition)
  offset,                   \* messages consumed and committed by the group
  redis,                    \* the store
  isRunning,
  isRebuilding,
  consecutiveEmptyBatches,
  timeSinceLastBatch,       \* Date.now() - lastBatchProcessedTime, or NullTime
  rebuildCheckInterval,     \* TRUE while the setInterval is armed
  pc,                       \* position of the eachBatch handler
  batchLen,                 \* number of messages of the batch in hand
  events,                   \* valid events of the batch
  initialRanks,
  currentRanks,
  hotQueue,                 \* events of hot groups not yet applied
  previousRank,
  newRankData,
  published,                \* leaderboard-updated messages sent by this batch
  purged,                   \* game modes whose top-100 paths this batch purged
  replayRun,                \* history: this run started in rebuild mode
  backlog,                  \* history: messages that were in the log at
                            \* startConsumer and are not yet committed
  switches,                 \* history: times rebuild mode was left in this run
  emptyRun,                 \* history: consecutive batches without valid
                            \* event handled in rebuild mode
  batchRebuilding,          \* history: isRebuilding when the batch was taken
  storeAtBatch,             \* history: the store when the batch was taken
  rankBefore,               \* history: rank right before an event's update
  rankAfter,                \* history: rank right after an event's update
  throws,                   \* history: times eachBatch rejected
  startCalls,               \* history: the calls startConsumer made, in order
  lastCall,                 \* history: the last call of a service function
                            \* or route, its input and what it returned
  sinceLastCheck,           \* time: ms since the setInterval was armed or
                            \* its callback last ran
  idleFor,                  \* time: ms since eachBatch was last handed a
                            \* batch, or since the setInterval was armed
  starters,                 \* the calls of startConsumer, each one's position
  checks,                   \* the calls of checkRateLimit, each one's position
  shutdownPc,               \* position of shutdown (index.js)
  closed                    \* the connections closed by disconnect, in order

engineVars ==
  <<isRunning, isRebuilding, consecutiveEmptyBatches, timeSinceLastBatch,
    rebuildCheckInterval>>
handlerVars ==
  <<pc, batchLen, events, initialRanks, currentRanks, hotQueue, previousRank,
    newRankData, published, purged>>
historyVars ==
  <<replayRun, backlog, switches, emptyRun, batchRebuilding, storeAtBatch,
    rankBefore, rankAfter, throws, startCalls, lastCall>>

clockVars == <<sinceLastCheck, idleFor>>

taskVars == <<starters, checks, shutdownPc, closed>>

vars ==
  <<log, offset, redis, engineVars, handlerVars, historyVars, clockVars,
    taskVars>>

\* The calls of startConsumer and of checkRateLimit that may overlap.
StartCallers == 1..2
CheckCallers == 1..2

\* A call of startConsumer that has not been made.
NoStarter == [pc |-> "none", needsRebuild |-> FALSE]

\* A call of checkRateLimit that has not been made.
NoCheck ==
  [pc |-> "none", playerId |-> "", lastSubmission |-> FALSE,
   allowed |-> FALSE]

NoRanks == [k \in {} |-> NullRank]

\* No service function or route called yet.
NoCall == [op |-> "none", input |-> <<>>, output |-> <<>>]

\* The module state of the consumer before startConsumer, no batch in hand.
Stopped ==
  /\ isRunning = FALSE
  /\ isRebuilding = FALSE
  /\ consecutiveEmptyBatches = 0
  /\ timeSinceLastBatch = NullTime
  /\ rebuildCheckInterval = FALSE
  /\ pc = "idle"
  /\ batchLen = 0
  /\ events = <<>>
  /\ initialRanks = NoRanks
  /\ currentRanks = NoRanks
  /\ hotQueue = <<>>
  /\ previousRank = NullRank
  /\ newRankData = NoRankData
  /\ published = <<>>
  /\ purged = <<>>
  /\ replayRun = FALSE
  /\ backlog = 0
  /\ switches = 0
  /\ emptyRun = 0
  /\ batchRebuilding = FALSE
  /\ storeAtBatch = EmptyStore
  /\ rankBefore = NoRanks
  /\ rankAfter = NoRanks
  /\ throws = 0
  /\ startCalls = <<>>
  /\ lastCall = NoCall
  /\ sinceLastCheck = 0
  /\ idleFor = 0
  /\ starters = [c \in StartCallers |-> NoStarter]
  /\ checks = [c \in CheckCallers |-> NoCheck]
  /\ shutdownPc = "none"
  /\ closed = <<>>

\* A new deployment: empty topic, empty store, consumer not started.
Init ==
  /\ log = <<>>
  /\ offset = 0
  /\ redis = EmptyStore
  /\ Stopped

(* ---------------------------------------------------------------------- *)
(* Producer side and engine start / stop                                   *)
(* ---------------------------------------------------------------------- *)

\* kafkaService.publishScoreSubmitted: one message appended to the topic.
PublishScoreSubmitted(m) ==
  /\ Len(log) < MaxLog
  /\ log' = Append(log, m)
  /\ UNCHANGED <<offset, redis, engineVars, handlerVars, historyVars, clockVars, taskVars>>

\* A playerId the submission route accepts (any string of 1 to 100
\* characters) that contains the text ":last_submission".
MarkedPlayer == "p1:last_submission:x"

\* A playerId (a string of 1 to 100 characters, a path parameter of the
\* players routes) that is another player's id followed by
\* ":last_submission".
CollidingPlayer == "p1:last_submission"

\* A key as the sequence of the pieces of text it is made of.
IdTokens(playerId) ==
  IF playerId = MarkedPlayer
    THEN <<"p1", ":last_submission", ":x">>
    ELSE IF playerId = CollidingPlayer
           THEN <<"p1", ":last_submission">>
           ELSE <<playerId>>

\* `player:${playerId}`
RecordKey(playerId) == <<"player:">> \o IdTokens(playerId)

\* `player:${playerId}:last_submission`
RateLimitKey(playerId) == RecordKey(playerId) \o <<":last_submission">>

\* key.includes(":last_submission")
IncludesLastSubmission(key) ==
  \E i \in 1..Len(key) : key[i] = ":last_submission"

\* Keys of the model's players that SCAN MATCH player:* returns.
ScanPlayerKeys(store) ==
  {RecordKey(p) : p \in DOMAIN store.players}
    \cup {RateLimitKey(p) : p \in store.lastSubmission}

\* playerCount at the end of the scan loop.
PlayerCount(store) ==
  Cardinality({k \in ScanPlayerKeys(store) : ~IncludesLastSubmission(k)})
    + (IF \E g \in GameModes : store.crowd[g] > 0 THEN 1 ELSE 0)

\* redis.zcard(`leaderboard:${mode.id}:global`)
ZCard(store, gameMode) ==
  Cardinality(DOMAIN store.global[gameMode]) + store.crowd[gameMode]

\* The store call of needsRebuild that rejects, if any: the hgetall of
\* getAllGameModes, the first zcard or the first scan.
StoreFaults == {"none", "hgetall", "zcard", "scan"}

\* Whether needsRebuild gets as far as the call that rejects.
FaultReached(store, fault) ==
  \/ fault = "hgetall"
  \/ fault = "zcard" /\ store.gameModes # {}
  \/ /\ fault = "scan"
     /\ \A g \in store.gameModes : ZCard(store, g) = 0

\* NeedsRebuild with a rejected store call answered by false.
Mut_NeedsRebuild(store, fault) ==
  IF FaultReached(store, fault)
    THEN FALSE
    ELSE IF \E g \in store.gameModes : ZCard(store, g) > 0
           THEN FALSE
           ELSE PlayerCount(store) = 0

\* redisService.needsRebuild: a rejected store call is caught and answered
\* by true; else false as soon as a listed game mode's global leaderboard
\* has a member, else whether the scan counted no player key.
NeedsRebuild(store, fault) ==
  IF FaultReached(store, fault)
    THEN TRUE
    ELSE IF \E g \in store.gameModes : ZCard(store, g) > 0
           THEN FALSE
           ELSE PlayerCount(store) = 0

\* What the broker answers to the calls of resetConsumerOffsetToEarliest:
\* admin.connect, consumer.disconnect, admin.deleteGroups ("notexist": it
\* rejects with a message that includes "does not exist"),
\* admin.disconnect, consumer.connect.
ResetOutcomes ==
  [adminConnect : {"ok", "fail"}, disconnect : {"ok", "fail"},
   deleteGroups : {"ok", "notexist", "fail"},
   adminDisconnect : {"ok", "fail"}, connect : {"ok", "fail"}]

\* Every call answered.
ResetNominal ==
  [adminConnect |-> "ok", disconnect |-> "ok", deleteGroups |-> "ok",
   adminDisconnect |-> "ok", connect |-> "ok"]

\* resetConsumerOffsetToEarliest: what it returns and whether the group was
\* deleted.  The errors of consumer.disconnect and admin.deleteGroups are
\* caught where they occur; those of admin.connect and admin.disconnect go
\* to the outer catch; consumer.connect failing gives false.
ResetConsumerOffsetToEarliest(r) ==
  IF r.adminConnect = "fail"
    THEN [result |-> FALSE, deleted |-> FALSE]
    ELSE [result |-> r.adminDisconnect = "ok" /\ r.connect = "ok",
          deleted |-> r.deleteGroups = "ok"]

\* The group offset after resetConsumerOffsetToEarliest: when the group is
\* deleted the next fetch starts at the earliest offset, else the committed
\* offset stays.
ResetOffset(committed, resetOk) == IF resetOk THEN 0 ELSE committed

\* One call of startConsumer and the value it returned or was given.
StartCall(call, value) == [call |-> call, value |-> value]

\* StartCalls subscribing from the beginning only when the reset succeeded.
Mut_StartCalls(rebuild, resetResult) ==
  IF rebuild
    THEN <<StartCall("needsRebuild", TRUE),
           StartCall("resetConsumerOffsetToEarliest", resetResult),
           StartCall("subscribe fromBeginning", resetResult),
           StartCall("setInterval", TRUE),
           StartCall("run", TRUE)>>
    ELSE <<StartCall("needsRebuild", FALSE),
           StartCall("subscribe fromBeginning", FALSE),
           StartCall("run", TRUE)>>

\* The calls of startConsumer in order, given what needsRebuild and
\* resetConsumerOffsetToEarliest return.
StartCalls(rebuild, resetResult) ==
  IF rebuild
    THEN <<StartCall("needsRebuild", TRUE),
           StartCall("resetConsumerOffsetToEarliest", resetResult),
           StartCall("subscribe fromBeginning", TRUE),
           StartCall("setInterval", TRUE),
           StartCall("run", TRUE)>>
    ELSE <<StartCall("needsRebuild", FALSE),
           StartCall("subscribe fromBeginning", FALSE),
           StartCall("run", TRUE)>>

\* startConsumer up to consumer.run, given the store call of needsRebuild
\* that rejects and what the broker answers during the reset: in rebuild
\* mode the group offsets are reset to earliest, the subscription is made
\* from the beginning and the idle check is armed.
Start(fault, r) ==
  /\ ~isRunning
  /\ (r.deleteGroups = "notexist") => (offset = 0)
  /\ isRunning' = TRUE
  /\ IF NeedsRebuild(redis, fault)
       THEN /\ isRebuilding' = TRUE
            /\ offset' =
                 ResetOffset(offset, ResetConsumerOffsetToEarliest(r).deleted)
            /\ timeSinceLastBatch' = 0
            /\ rebuildCheckInterval' = TRUE
            /\ sinceLastCheck' = 0
            /\ idleFor' = 0
       ELSE /\ isRebuilding' = FALSE
            /\ UNCHANGED <<offset, timeSinceLastBatch, rebuildCheckInterval,
                           clockVars>>
  /\ startCalls' = StartCalls(NeedsRebuild(redis, fault),
                            ResetConsumerOffsetToEarliest(r).result)
  /\ replayRun' = NeedsRebuild(redis, fault)
  /\ backlog' = IF NeedsRebuild(redis, fault)
                  THEN Len(log) -
                       ResetOffset(offset,
                                   ResetConsumerOffsetToEarliest(r).deleted)
                  ELSE 0
  /\ switches' = 0
  /\ emptyRun' = 0
  /\ UNCHANGED <<log, redis, consecutiveEmptyBatches, handlerVars,
                 batchRebuilding, storeAtBatch, rankBefore,
                 rankAfter, throws, lastCall, taskVars>>

StartConsumer ==
  \E fault \in StoreFaults, r \in ResetOutcomes : Start(fault, r)

\* startConsumer with the broker answering every call of the reset.
StartOnBroker == \E fault \in StoreFaults : Start(fault, ResetNominal)

\* stopConsumer: consumer.disconnect() returns once the batch in hand has
\* been handled.
StopConsumer ==
  /\ isRunning
  /\ pc = "idle"
  /\ rebuildCheckInterval' = FALSE
  /\ isRunning' = FALSE
  /\ isRebuilding' = FALSE
  /\ consecutiveEmptyBatches' = 0
  /\ timeSinceLastBatch' = NullTime
  /\ UNCHANGED <<log, offset, redis, handlerVars, historyVars, clockVars, taskVars>>

\* IdleTimeoutReached with a strict comparison.
Mut_IdleTimeoutReached(elapsed) == elapsed > REBUILD_IDLE_TIMEOUT

\* timeSinceLastBatch >= REBUILD_IDLE_TIMEOUT
IdleTimeoutReached(elapsed) == elapsed >= REBUILD_IDLE_TIMEOUT

\* What is left of the interval until the callback is due.
UntilCheck == CHECK_INTERVAL - sinceLastCheck

\* The setInterval callback, CHECK_INTERVAL after the previous one or after
\* the timer was armed.
RebuildCheck ==
  /\ rebuildCheckInterval
  /\ sinceLastCheck' = 0
  /\ idleFor' = idleFor + UntilCheck
  /\ IF isRebuilding /\ timeSinceLastBatch # NullTime
       THEN IF IdleTimeoutReached(timeSinceLastBatch + UntilCheck)
              THEN /\ isRebuilding' = FALSE
                   /\ consecutiveEmptyBatches' = 0
                   /\ timeSinceLastBatch' = NullTime
                   /\ rebuildCheckInterval' = FALSE
                   /\ switches' = switches + 1
                   /\ emptyRun' = 0
              ELSE /\ timeSinceLastBatch' = timeSinceLastBatch + UntilCheck
                   /\ UNCHANGED <<isRebuilding, consecutiveEmptyBatches,
                                  rebuildCheckInterval, switches, emptyRun>>
       ELSE UNCHANGED <<isRebuilding, consecutiveEmptyBatches,
                        timeSinceLastBatch, rebuildCheckInterval, switches,
                        emptyRun>>
  /\ UNCHANGED <<log, offset, redis, isRunning, handlerVars, replayRun,
                 backlog, batchRebuilding, storeAtBatch, rankBefore,
                 rankAfter, throws,
                 startCalls, lastCall, taskVars>>

\* Time passes, less than what is left until the callback is due.
TimePasses(ms) ==
  /\ rebuildCheckInterval
  /\ sinceLastCheck + ms < CHECK_INTERVAL
  /\ sinceLastCheck' = sinceLastCheck + ms
  /\ idleFor' = idleFor + ms
  /\ timeSinceLastBatch' =
       IF timeSinceLastBatch = NullTime
         THEN NullTime
         ELSE timeSinceLastBatch + ms
  /\ UNCHANGED <<log, offset, redis, isRunning, isRebuilding,
                 consecutiveEmptyBatches, rebuildCheckInterval, handlerVars,
                 historyVars, taskVars>>

(* ---------------------------------------------------------------------- *)
(* eachBatch                                                               *)
(* ---------------------------------------------------------------------- *)

\* History: the rank of every standalone event's member right before and
\* right after the event's own commands, while the pipeline executes.
RECURSIVE StandaloneRanks(_, _, _, _)
StandaloneRanks(base, cur, evs, after) ==
  IF evs = <<>>
    THEN [o \in {} |-> NullRank]
    ELSE LET e == Head(evs)
             nxt == StandaloneEventOps(cur, e, PlayerExists(base, e.playerId))
             rest == StandaloneRanks(base, nxt, Tail(evs), after)
             mine == RankOrNull(GetPlayerRank(IF after THEN nxt ELSE cur,
                                              e.gameMode, e.playerId))
         IN [o \in (DOMAIN rest) \cup {e.offset} |->
               IF o = e.offset THEN mine ELSE rest[o]]

\* EmptyThresholdReached with > for >=.
Mut_EmptyThresholdReached(count) == count > EMPTY_BATCH_THRESHOLD

\* consecutiveEmptyBatches >= EMPTY_BATCH_THRESHOLD
EmptyThresholdReached(count) == count >= EMPTY_BATCH_THRESHOLD

\* EmptyBatchWhileRebuilding leaving the interval timer armed when it
\* leaves rebuild mode.
Mut_EmptyBatchWhileRebuilding(n) ==
  /\ isRebuilding
  /\ ParseEvents(BatchMessages(log, offset, n)) = <<>>
  /\ IF EmptyThresholdReached(consecutiveEmptyBatches + 1)
       THEN /\ isRebuilding' = FALSE
            /\ consecutiveEmptyBatches' = 0
            /\ timeSinceLastBatch' = NullTime
            /\ UNCHANGED rebuildCheckInterval
            /\ switches' = switches + 1
       ELSE /\ consecutiveEmptyBatches' = consecutiveEmptyBatches + 1
            /\ timeSinceLastBatch' = 0
            /\ UNCHANGED <<isRebuilding, rebuildCheckInterval, switches>>
  /\ offset' = offset + n
  /\ backlog' = IF backlog > n THEN backlog - n ELSE 0
  /\ emptyRun' = emptyRun + 1
  /\ idleFor' = 0
  /\ UNCHANGED <<log, redis, isRunning, handlerVars, replayRun,
                 batchRebuilding, storeAtBatch, rankBefore,
                 rankAfter, throws,
                 startCalls, lastCall, sinceLastCheck,
                 taskVars>>

\* Replay bookkeeping done by a batch without valid event in rebuild mode.
\* The handler returns at once, so the batch is committed in the same step.
EmptyBatchWhileRebuilding(n) ==
  /\ isRebuilding
  /\ ParseEvents(BatchMessages(log, offset, n)) = <<>>
  /\ IF EmptyThresholdReached(consecutiveEmptyBatches + 1)
       THEN /\ isRebuilding' = FALSE
            /\ consecutiveEmptyBatches' = 0
            /\ timeSinceLastBatch' = NullTime
            /\ rebuildCheckInterval' = FALSE
            /\ switches' = switches + 1
       ELSE /\ consecutiveEmptyBatches' = consecutiveEmptyBatches + 1
            /\ timeSinceLastBatch' = 0
            /\ UNCHANGED <<isRebuilding, rebuildCheckInterval, switches>>
  /\ offset' = offset + n
  /\ backlog' = IF backlog > n THEN backlog - n ELSE 0
  /\ emptyRun' = emptyRun + 1
  /\ idleFor' = 0
  /\ UNCHANGED <<log, redis, isRunning, handlerVars, replayRun,
                 batchRebuilding, storeAtBatch, rankBefore,
                 rankAfter, throws,
                 startCalls, lastCall, sinceLastCheck,
                 taskVars>>

\* EmptyBatchWhileTailing counting the batch as the replay does.
Mut_EmptyBatchWhileTailing(n) ==
  /\ ~isRebuilding
  /\ ParseEvents(BatchMessages(log, offset, n)) = <<>>
  /\ offset' = offset + n
  /\ backlog' = IF backlog > n THEN backlog - n ELSE 0
  /\ consecutiveEmptyBatches' = consecutiveEmptyBatches + 1
  /\ idleFor' = 0
  /\ UNCHANGED <<log, redis, isRunning, isRebuilding, timeSinceLastBatch,
                 rebuildCheckInterval, handlerVars, replayRun, switches,
                 emptyRun, batchRebuilding, storeAtBatch, rankBefore,
                 rankAfter, throws, startCalls, lastCall, sinceLastCheck,
                 taskVars>>

\* A batch without valid event in normal mode: return, nothing else.
EmptyBatchWhileTailing(n) ==
  /\ ~isRebuilding
  /\ ParseEvents(BatchMessages(log, offset, n)) = <<>>
  /\ offset' = offset + n
  /\ backlog' = IF backlog > n THEN backlog - n ELSE 0
  /\ idleFor' = 0
  /\ UNCHANGED <<log, redis, engineVars, handlerVars, replayRun, switches,
                 emptyRun, batchRebuilding, storeAtBatch, rankBefore,
                 rankAfter, throws,
                 startCalls, lastCall, sinceLastCheck,
                 taskVars>>

\* A batch with at least one valid event: parse, replay bookkeeping, then
\* suspend on the first getPlayerRank.
BatchWithEvents(n) ==
  /\ ParseEvents(BatchMessages(log, offset, n)) # <<>>
  /\ events' = ParseEvents(BatchMessages(log, offset, n))
  /\ batchLen' = n
  /\ IF isRebuilding
       THEN /\ timeSinceLastBatch' = 0
            /\ consecutiveEmptyBatches' = 0
       ELSE UNCHANGED <<timeSinceLastBatch, consecutiveEmptyBatches>>
  /\ pc' = "snapshot"
  /\ emptyRun' = 0
  /\ batchRebuilding' = isRebuilding
  /\ storeAtBatch' = redis
  /\ idleFor' = 0
  /\ UNCHANGED <<log, offset, redis, isRunning, isRebuilding,
                 rebuildCheckInterval, initialRanks, currentRanks, hotQueue,
                 previousRank, newRankData, published, purged, replayRun,
                 backlog, switches, rankBefore, rankAfter, throws,
                 startCalls, lastCall, sinceLastCheck,
                 taskVars>>

\* consumer.run hands the next batch to eachBatch: the next n messages of
\* the log, or no message at all when the consumer is at the end of the log.
EachBatch ==
  /\ isRunning
  /\ pc = "idle"
  /\ \E n \in 0..(Len(log) - offset) :
       /\ (n = 0) => (offset = Len(log))
       /\ \/ EmptyBatchWhileRebuilding(n)
          \/ EmptyBatchWhileTailing(n)
          \/ BatchWithEvents(n)

\* The initialRanks loop and the grouping.
SnapshotRanks ==
  /\ pc = "snapshot"
  /\ initialRanks' = InitialRanks(redis, events)
  /\ currentRanks' = NoRanks
  /\ hotQueue' = HotEvents(events)
  /\ pc' = IF HotEvents(events) # <<>> THEN "hot" ELSE "standalone"
  /\ UNCHANGED <<log, offset, redis, engineVars, batchLen, events,
                 previousRank, newRankData, published, purged, historyVars, clockVars, taskVars>>

\* One event of a hot group, up to the getPlayerRank after pipeline.exec.
HotApply ==
  /\ pc = "hot"
  /\ LET e == Head(hotQueue)
         key == KeyOf(e)
         after == HotEventPipeline(redis, e)
         nr == GetPlayerRank(after, e.gameMode, e.playerId)
     IN /\ previousRank' = IF key \in DOMAIN currentRanks
                             THEN currentRanks[key]
                             ELSE initialRanks[key]
        /\ redis' = after
        /\ newRankData' = nr
        /\ currentRanks' =
             IF nr # NoRankData
               THEN [k \in (DOMAIN currentRanks) \cup {key} |->
                       IF k = key THEN nr.rank ELSE currentRanks[k]]
               ELSE currentRanks
        /\ rankBefore' =
             [o \in (DOMAIN rankBefore) \cup {e.offset} |->
                IF o = e.offset
                  THEN RankOrNull(GetPlayerRank(redis, e.gameMode, e.playerId))
                  ELSE rankBefore[o]]
        /\ rankAfter' =
             [o \in (DOMAIN rankAfter) \cup {e.offset} |->
                IF o = e.offset THEN nr.rank ELSE rankAfter[o]]
  /\ pc' = "hotNotify"
  /\ UNCHANGED <<log, offset, engineVars, batchLen, events, initialRanks,
                 hotQueue, published, purged, replayRun, backlog, switches,
                 emptyRun, batchRebuilding, storeAtBatch, throws,
                 startCalls, lastCall, clockVars, taskVars>>

\* HotRankChanged without the isRebuilding test.
Mut_HotRankChanged(rebuilding, newRank, prevRank) ==
  /\ newRank # NoRankData
  /\ newRank.rank # prevRank

\* The test before publishLeaderboardUpdated in the hot-group loop.
HotRankChanged(rebuilding, newRank, prevRank) ==
  /\ ~rebuilding
  /\ newRank # NoRankData
  /\ newRank.rank # prevRank

\* The rank-change publication of that event, read of isRebuilding first,
\* given what the broker and the CDN do.
HotPublish(out) ==
  /\ pc = "hotNotify"
  /\ LET e == Head(hotQueue)
         changed == HotRankChanged(isRebuilding, newRankData, previousRank)
         note == Notification(e, newRankData, previousRank)
     IN /\ published' =
             IF changed
               THEN Append(published, PublishCall(note, out.publish))
               ELSE published
        /\ purged' =
             IF changed /\ TouchesTop100(previousRank, newRankData.rank)
               THEN Append(purged, PurgeCall(note, out.cdn, out.response))
               ELSE purged
        /\ pc' = IF changed /\ PublishRejects(out.publish)
                   THEN "thrown"
                   ELSE IF Tail(hotQueue) # <<>> THEN "hot" ELSE "standalone"
  /\ hotQueue' = Tail(hotQueue)
  /\ UNCHANGED <<log, offset, redis, engineVars, batchLen, events,
                 initialRanks, currentRanks, previousRank, newRankData,
                 historyVars, clockVars, taskVars>>

\* The standalone pipeline: queue every event's commands, exec.
StandaloneApply ==
  /\ pc = "standalone"
  /\ LET sevs == StandaloneEvents(events) IN
       /\ redis' = StandalonePipeline(redis, redis, sevs)
       /\ rankBefore' = rankBefore @@ StandaloneRanks(redis, redis, sevs, FALSE)
       /\ rankAfter' = rankAfter @@ StandaloneRanks(redis, redis, sevs, TRUE)
       /\ pc' = IF sevs # <<>> THEN "standaloneNotify" ELSE "return"
  /\ UNCHANGED <<log, offset, engineVars, batchLen, events, initialRanks,
                 currentRanks, hotQueue, previousRank, newRankData, published,
                 purged, replayRun, backlog, switches, emptyRun,
                 batchRebuilding, storeAtBatch, throws,
                 startCalls, lastCall, clockVars, taskVars>>

\* The publish loop over the standalone events, read of isRebuilding
\* first, given what the broker and the CDN do during the loop.
StandalonePublish(out) ==
  /\ pc = "standaloneNotify"
  /\ LET notes == IF ~isRebuilding
                    THEN StandaloneNotifications(redis, initialRanks,
                                                 StandaloneEvents(events))
                    ELSE <<>>
         hits == SelectSeq(notes,
                           LAMBDA x : TouchesTop100(x.oldRank, x.newRank))
     IN /\ published' =
             published \o [i \in 1..Len(notes) |->
                             PublishCall(notes[i], out.publish)]
        /\ purged' =
             purged \o [i \in 1..Len(hits) |->
                          PurgeCall(hits[i], out.cdn, out.response)]
        /\ pc' = IF notes # <<>> /\ PublishRejects(out.publish)
                   THEN "thrown"
                   ELSE "return"
  /\ UNCHANGED <<log, offset, redis, engineVars, batchLen, events,
                 initialRanks, currentRanks, hotQueue, previousRank,
                 newRankData, historyVars, clockVars, taskVars>>

\* eachBatch returns: the batch's offsets are committed and the handler's
\* locals are gone.
EachBatchReturn ==
  /\ pc = "return"
  /\ offset' = offset + batchLen
  /\ pc' = "idle"
  /\ batchLen' = 0
  /\ events' = <<>>
  /\ initialRanks' = NoRanks
  /\ currentRanks' = NoRanks
  /\ hotQueue' = <<>>
  /\ previousRank' = NullRank
  /\ newRankData' = NoRankData
  /\ published' = <<>>
  /\ purged' = <<>>
  /\ batchRebuilding' = FALSE
  /\ storeAtBatch' = EmptyStore
  /\ rankBefore' = NoRanks
  /\ rankAfter' = NoRanks
  /\ backlog' = IF backlog > batchLen THEN backlog - batchLen ELSE 0
  /\ UNCHANGED <<log, redis, engineVars, replayRun, switches, emptyRun,
                 throws, startCalls, lastCall, clockVars, taskVars>>

HotNotify == HotPublish(NominalOutcome)

StandaloneNotify == StandalonePublish(NominalOutcome)

Next ==
  \/ \E m \in Messages : PublishScoreSubmitted(m)
  \/ StartOnBroker
  \/ RebuildCheck
  \/ EachBatch
  \/ SnapshotRanks
  \/ HotApply
  \/ HotNotify
  \/ StandaloneApply
  \/ StandaloneNotify
  \/ EachBatchReturn

Spec == Init /\ [][Next]_vars

(* ---------------------------------------------------------------------- *)
(* The start of the engine on a store that is not new                      *)
(* ---------------------------------------------------------------------- *)

\* A player:{id} hash.
PlayerRecord == [username |-> "a", total_score |-> 1, games_played |-> 1]

\* Stores at startConsumer: the game_modes hash seeded, partly seeded or
\* not, player records and rate-limit keys of a plain player and of
\* MarkedPlayer, members in the global leaderboards or none.
StartStores ==
  {[EmptyStore EXCEPT !.gameModes = gm,
                      !.players = [p \in ps |-> PlayerRecord],
                      !.lastSubmission = ls,
                      !.global = [g \in GameModes |->
                                    IF g \in full
                                      THEN [m \in {"p1"} |-> g]
                                      ELSE EmptyZSet]] :
     gm \in {{}, {1}, GameModes},
     ps \in SUBSET {"p1", MarkedPlayer},
     ls \in SUBSET {"p1", MarkedPlayer},
     full \in SUBSET GameModes}

\* The engine is started on such a store; the topic holds what the group
\* has consumed and committed before.
InitStart ==
  /\ log \in {<<>>, <<ScoreEvent("p1", 1, 1, "a")>>}
  /\ offset = Len(log)
  /\ redis \in StartStores
  /\ Stopped

NextStart == StartConsumer

SpecStart == InitStart /\ [][NextStart]_vars

(* ---------------------------------------------------------------------- *)
(* Properties                                                              *)
(* ---------------------------------------------------------------------- *)

\* The accepted events among the messages consumed so far.
Accepted == ParseEvents(SubSeq(log, 1, offset))

RECURSIVE SumOfScores(_)
SumOfScores(evs) ==
  IF evs = <<>> THEN 0 ELSE Head(evs).score + SumOfScores(Tail(evs))

EventsOfKey(evs, k) == SelectSeq(evs, LAMBDA e : KeyOf(e) = k)
EventsOfPlayer(evs, p) == SelectSeq(evs, LAMBDA e : e.playerId = p)

\* Score of a member in a sorted set, 0 for a member that is absent.
ScoreIn(z, member) == IF member \in DOMAIN z THEN z[member] ELSE 0

\* A field of player:{p}, 0 when there is no record.
TotalScoreOf(p) ==
  IF p \in DOMAIN redis.players THEN redis.players[p].total_score ELSE 0
GamesPlayedOf(p) ==
  IF p \in DOMAIN redis.players THEN redis.players[p].games_played ELSE 0

\* C1: between batches, the score of every member of every global
\* leaderboard is the sum of the scores of the accepted events of its
\* (playerId, gameMode) key, however the events were split into batches,
\* hot groups and standalone events, in rebuild mode and in normal mode.
C1_GlobalScoreIsSum ==
  (pc = "idle") =>
    \A p \in Players, g \in GameModes :
      ScoreIn(redis.global[g], p) =
        SumOfScores(EventsOfKey(Accepted, <<p, g>>))

\* C1 witness: a key has received at least two events and the batch that
\* held the last of them has returned.
C1_Witness ==
  /\ pc = "idle"
  /\ \E k \in Keys :
       /\ Len(EventsOfKey(Accepted, k)) >= 2
       /\ ScoreIn(redis.global[k[2]], k[1]) >= 3

\* C2: between batches, games_played of every player is the number of
\* accepted events of that player.
C2_GamesPlayedIsCount ==
  (pc = "idle") =>
    \A p \in Players : GamesPlayedOf(p) = Len(EventsOfPlayer(Accepted, p))

\* C3: between batches, total_score of every player is the sum of the
\* scores of the accepted events of that player over all game modes.
C3_TotalScoreIsSum ==
  (pc = "idle") =>
    \A p \in Players :
      TotalScoreOf(p) = SumOfScores(EventsOfPlayer(Accepted, p))

\* C4: every leaderboard-updated message carries as oldRank the rank the
\* player had right before the update of the event it is emitted for, and
\* as newRank the rank right after that update.
C4_NotificationRanksAreAdjacent ==
  \A i \in 1..Len(published) :
    /\ published[i].oldRank = rankBefore[published[i].event]
    /\ published[i].newRank = rankAfter[published[i].event]

\* Messages of the batch in hand emitted for key k.
PublishedFor(k) ==
  SelectSeq(published, LAMBDA x : <<x.playerId, x.gameMode>> = k)

\* Events of the batch in hand with key k whose own update changed the rank.
RankChangingEvents(k) ==
  SelectSeq(events,
            LAMBDA e : KeyOf(e) = k /\ rankBefore[e.offset] # rankAfter[e.offset])

\* C5: when a batch taken in normal mode returns, the number of
\* leaderboard-updated messages emitted for a key is the number of the
\* batch's events of that key whose own update changed the key's rank.
C5_OneNotificationPerRankChange ==
  (pc = "return" /\ ~batchRebuilding) =>
    \A k \in Keys : Len(PublishedFor(k)) = Len(RankChangingEvents(k))

\* C6: a step that sends a leaderboard-updated message is taken with
\* isRebuilding false, before and after the step.
C6_NoPublishWhileRebuilding ==
  [][(Len(published') > Len(published)) => (~isRebuilding /\ ~isRebuilding')]_vars

\* C6 witness: a batch handled in rebuild mode has applied a hot-group
\* event that changed the rank and has sent nothing.
C6_Witness ==
  /\ isRebuilding
  /\ pc = "return"
  /\ published = <<>>
  /\ \E i \in 1..Len(events) :
       /\ events[i].offset \in DOMAIN rankBefore
       /\ Len(EventsOfKey(events, KeyOf(events[i]))) > 1
       /\ rankBefore[events[i].offset] # rankAfter[events[i].offset]

\* C7: in a run started in rebuild mode, the engine is in normal mode only
\* when every message that was in the log at startConsumer has been
\* consumed and its batch has returned.
C7_NoSwitchBeforeBacklogConsumed ==
  (isRunning /\ replayRun /\ ~isRebuilding) => (backlog = 0)

RECURSIVE HotLoop(_, _)
HotLoop(store, evs) ==
  IF evs = <<>>
    THEN store
    ELSE HotLoop(HotEventPipeline(store, Head(evs)), Tail(evs))

\* The store eachBatch leaves when it handles the valid events evs: the
\* hot groups one event at a time, then the standalone pipeline.
EachBatchStore(store, evs) ==
  LET afterHot == HotLoop(store, HotEvents(evs))
  IN StandalonePipeline(afterHot, afterHot, StandaloneEvents(evs))

\* The store reached from store by handling evs in normal mode, one batch
\* per event.
RECURSIVE TailingRun(_, _)
TailingRun(store, evs) ==
  IF evs = <<>>
    THEN store
    ELSE TailingRun(EachBatchStore(store, <<Head(evs)>>), Tail(evs))

\* C9: when the whole log has been consumed, in rebuild mode or in normal
\* mode and with any batch boundaries, every global leaderboard has the
\* members and scores that a normal-mode run over the same log reaches.
C9_ReplayEqualsTailing ==
  (pc = "idle" /\ isRunning /\ offset = Len(log)) =>
    \A g \in GameModes :
      redis.global[g] = TailingRun(EmptyStore, ParseEvents(log)).global[g]

\* C9 witness: a log with a hot group has been consumed entirely in rebuild
\* mode, in more than one batch.
C9_Witness ==
  /\ pc = "idle"
  /\ isRebuilding
  /\ offset = Len(log)
  /\ \E k \in Keys : Len(EventsOfKey(ParseEvents(log), k)) >= 2
  /\ Cardinality({ParseEvents(log)[i].playerId :
                    i \in 1..Len(ParseEvents(log))}) = 2

\* evs with the events at positions i and j exchanged.
SwapEvents(evs, i, j) ==
  [n \in 1..Len(evs) |->
     IF n = i THEN evs[j] ELSE IF n = j THEN evs[i] ELSE evs[n]]

\* C10 as claimed: when a batch returns, the store is the one the handler
\* reaches from the same starting store on the batch with any two events
\* of different (playerId, gameMode) keys exchanged.
C10_SwapDifferentKeys ==
  (pc = "return") =>
    \A i, j \in 1..Len(events) :
      (i < j /\ KeyOf(events[i]) # KeyOf(events[j])) =>
        EachBatchStore(storeAtBatch, SwapEvents(events, i, j)) = redis

\* Positions i < j of evs hold events of different players and no event of
\* either player lies between them.
SwappablePlayers(evs, i, j) ==
  /\ i < j
  /\ evs[i].playerId # evs[j].playerId
  /\ \A n \in (i + 1)..(j - 1) :
       evs[n].playerId \notin {evs[i].playerId, evs[j].playerId}

\* The sorted sets of two stores have the same members and scores.
SameLeaderboards(s1, s2) ==
  /\ s1.global = s2.global
  /\ s1.daily = s2.daily
  /\ s1.weekly = s2.weekly

\* C10 amended: when a batch returns, the leaderboards are those the
\* handler reaches from the same starting store on the batch with any two
\* events of different keys exchanged; the player records are the same
\* too when the two events are of different players and no event of either
\* player lies between them.
C10_SwapDifferentPlayers ==
  (pc = "return") =>
    \A i, j \in 1..Len(events) :
      /\ (i < j /\ KeyOf(events[i]) # KeyOf(events[j])) =>
           SameLeaderboards(
             EachBatchStore(storeAtBatch, SwapEvents(events, i, j)), redis)
      /\ SwappablePlayers(events, i, j) =>
           EachBatchStore(storeAtBatch, SwapEvents(events, i, j)) = redis

\* C10 witness: a batch with two exchangeable events of different players,
\* one of them in a hot group, has been applied.
C10_Witness ==
  /\ pc = "return"
  /\ \E i, j \in 1..Len(events) :
       /\ SwappablePlayers(events, i, j)
       /\ Len(EventsOfKey(events, KeyOf(events[i]))) > 1
       /\ redis # storeAtBatch

(* ---------------------------------------------------------------------- *)
(* The engine with failing store calls, broker and CDN                     *)
(* ---------------------------------------------------------------------- *)

\* A message of another producer whose score is text that is not a number.
TextScoreEvent ==
  [json |-> TRUE, playerId |-> "p1", username |-> "b", gameMode |-> 1,
   score |-> 0, scoreKind |-> "text"]

AnyMessages ==
  {ScoreEvent("p1", 1, 1, "a"), ScoreEvent("p2", 1, 2, "b"), TextScoreEvent}
    \cup MalformedEvents

\* An awaited store call outside any try block rejects (getPlayerRank of
\* the initialRanks loop, redis.exists of the first event of a hot group or
\* of the standalone loop): the promise of eachBatch rejects.
StoreCallRejects ==
  /\ \/ pc = "snapshot"
     \/ pc = "hot"
     \/ pc = "standalone" /\ StandaloneEvents(events) # <<>>
  /\ throws < MaxThrows
  /\ pc' = "thrown"
  /\ throws' = throws + 1
  /\ UNCHANGED <<log, offset, redis, engineVars, batchLen, events,
                 initialRanks, currentRanks, hotQueue, previousRank,
                 newRankData, published, purged, replayRun, backlog, switches,
                 emptyRun, batchRebuilding, storeAtBatch, rankBefore,
                 rankAfter, startCalls, lastCall, clockVars, taskVars>>

\* RetryOffset with the batch resolved although eachBatch rejected.
Mut_RetryOffset(committed, len) == committed + len

\* The offset the group holds after eachBatch rejected: the batch is not
\* resolved, nothing is committed.
RetryOffset(committed, len) == committed

\* After eachBatch rejected the consumer fetches again from the committed
\* offset; the handler's locals are gone.
Redeliver ==
  /\ pc = "thrown"
  /\ offset' = RetryOffset(offset, batchLen)
  /\ pc' = "idle"
  /\ batchLen' = 0
  /\ events' = <<>>
  /\ initialRanks' = NoRanks
  /\ currentRanks' = NoRanks
  /\ hotQueue' = <<>>
  /\ previousRank' = NullRank
  /\ newRankData' = NoRankData
  /\ published' = <<>>
  /\ purged' = <<>>
  /\ batchRebuilding' = FALSE
  /\ storeAtBatch' = EmptyStore
  /\ rankBefore' = NoRanks
  /\ rankAfter' = NoRanks
  /\ UNCHANGED <<log, redis, engineVars, replayRun, backlog, switches,
                 emptyRun, throws, startCalls, lastCall, clockVars, taskVars>>

\* A store in use: the global leaderboard of game mode 1 holds c members
\* besides those of the model.
TailingStore(c) == [EmptyStore EXCEPT !.crowd[1] = c]

InitFaults ==
  /\ log = <<>>
  /\ offset = 0
  /\ redis = TailingStore(99)
  /\ Stopped

\* startConsumer on a store that answers: no rebuild.
StartTailing == Start("none", ResetNominal)

NextFaults ==
  \/ \E m \in AnyMessages : PublishScoreSubmitted(m)
  \/ StartTailing
  \/ EachBatch
  \/ SnapshotRanks
  \/ HotApply
  \/ \E out \in Outcomes : HotPublish(out)
  \/ StandaloneApply
  \/ \E out \in Outcomes : StandalonePublish(out)
  \/ EachBatchReturn
  \/ StoreCallRejects
  \/ Redeliver

SpecFaults == InitFaults /\ [][NextFaults]_vars

\* A step of the hot-group loop that publishes nothing.
HotSilent ==
  /\ pc = "hotNotify"
  /\ ~HotRankChanged(isRebuilding, newRankData, previousRank)
  /\ HotPublish(NominalOutcome)

\* A pass of the standalone publish loop that publishes nothing.
StandaloneSilent ==
  /\ pc = "standaloneNotify"
  /\ (isRebuilding \/ StandaloneNotifications(redis, initialRanks,
                                               StandaloneEvents(events)) = <<>>)
  /\ StandalonePublish(NominalOutcome)

\* The engine on a store in use whose calls, broker and CDN answer; the
\* start may find the store unreachable and replay.
NumericMessages ==
  {ScoreEvent("p1", 1, 1, "a"), ScoreEvent("p1", 1, 2, "b"),
   ScoreEvent("p2", 1, 2, "b")}

NextTop100 ==
  \/ \E m \in NumericMessages : PublishScoreSubmitted(m)
  \/ StartOnBroker
  \/ RebuildCheck
  \/ EachBatch
  \/ SnapshotRanks
  \/ HotApply
  \/ HotNotify
  \/ StandaloneApply
  \/ StandaloneNotify
  \/ EachBatchReturn

InitTop100 ==
  /\ log = <<>>
  /\ offset = 0
  /\ redis \in {TailingStore(99), TailingStore(100)}
  /\ Stopped

SpecTop100 == InitTop100 /\ [][NextTop100]_vars

\* One step of the batch handler that does not wait for the broker.
HandlerStep ==
  \/ EachBatch
  \/ SnapshotRanks
  \/ HotApply
  \/ HotSilent
  \/ StandaloneApply
  \/ StandaloneSilent
  \/ EachBatchReturn

NextLive ==
  \/ \E m \in NumericMessages : PublishScoreSubmitted(m)
  \/ StartTailing
  \/ EachBatch
  \/ SnapshotRanks
  \/ HotApply
  \/ \E out \in Outcomes : HotPublish(out)
  \/ StandaloneApply
  \/ \E out \in Outcomes : StandalonePublish(out)
  \/ EachBatchReturn

\* The tailing engine with its scheduling: the handler is one sequential
\* task whose store calls are answered, so a step of it that does not wait
\* for the broker is taken once it can be; the send of a
\* leaderboard-updated message may take any time or never complete.
SpecLive == InitFaults /\ [][NextLive]_vars /\ WF_vars(HandlerStep)

(* ---------------------------------------------------------------------- *)
(* needsRebuild and the start in rebuild mode                              *)
(* ---------------------------------------------------------------------- *)

\* A key of the form player:{id}:last_submission.
IsRateLimitKey(key) == Len(key) >= 3 /\ key[Len(key)] = ":last_submission"

\* No global leaderboard of a listed game mode has a member and no
\* player:* key other than the rate-limit keys exists.
NothingToKeep(store) ==
  /\ \A g \in store.gameModes : ZCard(store, g) = 0
  /\ \A k \in ScanPlayerKeys(store) : IsRateLimitKey(k)
  /\ \A g \in GameModes : store.crowd[g] = 0

\* C11: needsRebuild answers true if and only if no global leaderboard of
\* a listed game mode has a member and the only player:* keys are rate-limit
\* keys player:{id}:last_submission (checked on error-free starts, where
\* isRebuilding becomes the answer of needsRebuild).
C11_NeedsRebuildIffNothingToKeep ==
  [][Start("none", ResetNominal) => (isRebuilding' <=> NothingToKeep(redis))]_vars

\* C12: a store call of needsRebuild that rejects makes needsRebuild answer
\* true, and the engine starts in rebuild mode.
C12_StoreErrorStartsRebuild ==
  [][\A fault \in StoreFaults \ {"none"}, r \in ResetOutcomes :
       (FaultReached(redis, fault) /\ Start(fault, r))
         => (isRunning' /\ isRebuilding')]_vars

\* The engine runs in rebuild mode on a store whose listed leaderboard has a
\* member: only a rejected store call leads there.
C12_Witness ==
  /\ isRunning
  /\ isRebuilding
  /\ \E g \in redis.gameModes : ZCard(redis, g) > 0

\* No member in any global leaderboard and no player record.
StoreHoldsNothing(store) ==
  /\ \A g \in GameModes : ZCard(store, g) = 0
  /\ DOMAIN store.players = {}

\* C13: whenever the engine starts in rebuild mode and consumes the topic
\* again from the earliest offset, the store holds no global-leaderboard
\* member and no player record.
C13_ReplayOnlyOnEmptyStore ==
  [][(~isRunning /\ isRunning' /\ isRebuilding' /\ offset' = 0)
       => StoreHoldsNothing(redis)]_vars

(* ---------------------------------------------------------------------- *)
(* Offsets, failures of one event, of the publish and of the purge         *)
(* ---------------------------------------------------------------------- *)

ApplicableEvents(evs) == SelectSeq(evs, LAMBDA e : IsNumber(e.scoreKind))

\* C15: when eachBatch returns, an event whose update commands the store
\* rejected has been skipped: the store is the one the handler reaches on
\* the batch without that event.
C15_FailedEventIsSkipped ==
  (pc = "return") =>
    redis = EachBatchStore(storeAtBatch, ApplicableEvents(events))

\* Publish calls of the batch whose message did not reach the topic.
FailedPublishes == SelectSeq(published, LAMBDA x : ~x.delivered)

\* C16: a publish that fails changes nothing in the store and does not end
\* the handler (the loop goes on to the next event or to the return), and a
\* batch that returns has had every valid event applied.
C16_PublishFailureIsContained ==
  /\ [][(Len(FailedPublishes') > Len(FailedPublishes)) =>
          (redis' = redis /\ pc' \in {"hot", "standalone", "return"})]_vars
  /\ [](pc = "return" => redis = EachBatchStore(storeAtBatch, events))

\* A batch of several events is about to return after a failed publish.
C16_Witness ==
  /\ pc = "return"
  /\ FailedPublishes # <<>>
  /\ Len(events) >= 2
  /\ redis # storeAtBatch

\* C17: once a hot-group event's notification is about to be published
\* while events of the batch are still to be applied, the store updates of
\* all events of the batch are eventually applied, whatever the publish
\* does.
C17_PublishNeverHoldsBackStore ==
  (/\ pc = "hotNotify"
   /\ HotRankChanged(isRebuilding, newRankData, previousRank)
   /\ (Tail(hotQueue) # <<>> \/ StandaloneEvents(events) # <<>>))
    ~> (/\ pc \in {"standaloneNotify", "return"}
        /\ redis = EachBatchStore(storeAtBatch, events))

\* The purge calls made for the event at offset o.
PurgesOf(o) == SelectSeq(purged, LAMBDA x : x.event = o)

\* C18: a purge is made for an event exactly when a rank change is
\* reported for it with the old rank non-null and at most 100 or the new
\* rank at most 100, once and with the three top-100 paths of the event's
\* game mode; none when both ranks are above 100, none in rebuild mode.
C18_PurgeOnTop100Change ==
  /\ [](\A i \in 1..Len(published) :
          LET n == published[i] IN
            IF /\ n.newRank # n.oldRank
               /\ \/ (n.oldRank # NullRank /\ n.oldRank <= 100)
                  \/ n.newRank <= 100
              THEN /\ Len(PurgesOf(n.event)) = 1
                   /\ PurgesOf(n.event)[1].paths =
                        <<<<"/api/leaderboard/", n.gameMode, "/top100">>,
                          <<"/api/leaderboard/", n.gameMode,
                            "?limit=100&offset=0">>,
                          <<"/api/leaderboard/", n.gameMode,
                            "?type=global&limit=100&offset=0">>>>
              ELSE PurgesOf(n.event) = <<>>)
  /\ [](\A i \in 1..Len(purged) :
          \E j \in 1..Len(published) : published[j].event = purged[i].event)
  /\ [][(Len(purged') > Len(purged)) => (~isRebuilding /\ ~isRebuilding')]_vars

\* One batch has a rank change at the edge of the top 100 that was purged
\* and a rank change below it that was not.
C18_Witness ==
  /\ \E i \in 1..Len(published) :
       /\ published[i].oldRank = 101
       /\ published[i].newRank = 100
       /\ PurgesOf(published[i].event) # <<>>
  /\ \E i \in 1..Len(published) :
       /\ published[i].oldRank = NullRank
       /\ published[i].newRank > 100
       /\ PurgesOf(published[i].event) = <<>>

\* The purge calls of the step, given the purge calls before and after.
NewPurges(before, after) == SubSeq(after, Len(before) + 1, Len(after))

\* C19: whatever the CDN configuration and answer, a purge call returns
\* (never raises) and the handler goes on; unconfigured, it makes no request
\* and returns false; on an unknown provider, a request error or a non-2xx
\* response it returns false.
C19_PurgeNeverRaises ==
  [][(Len(purged') > Len(purged)) =>
       \A out \in Outcomes :
         (HotPublish(out) \/ StandalonePublish(out)) =>
           /\ pc' # "thrown"
           /\ \A i \in 1..Len(NewPurges(purged, purged')) :
                LET c == NewPurges(purged, purged')[i] IN
                  /\ c.result \in {"true", "false"}
                  /\ (out.cdn.url = "unset" \/ out.cdn.key = "unset") =>
                       (~c.requested /\ c.result = "false")
                  /\ (\/ out.cdn.provider \notin
                            {"cloudflare", "cloudfront", "fastly"}
                      \/ out.response # "2xx") =>
                       c.result = "false"]_vars

\* A batch made a purge request that failed and one that was never sent,
\* and is about to return.
C19_Witness ==
  /\ pc = "return"
  /\ \E i \in 1..Len(purged) : purged[i].requested /\ purged[i].result = "false"
  /\ \E i \in 1..Len(purged) : ~purged[i].requested

\* The messages the claim accepts: JSON, playerId present, score present,
\* not null, not empty and a number.
WellFormed(m) == m.json /\ m.playerId # "" /\ m.scoreKind = "number"

\* C20: the events of the batch in hand are exactly the messages of the
\* batch that decode as JSON with a playerId and a numeric score, in
\* arrival order.
C20_AcceptsExactlyWellFormed ==
  (pc # "idle") =>
    events = SelectSeq(BatchMessages(log, offset, batchLen), WellFormed)

(* ---------------------------------------------------------------------- *)
(* Rejected messages                                                       *)
(* ---------------------------------------------------------------------- *)

\* Messages the parse loop rejects: not JSON, playerId missing, score
\* missing, null or ''.
RejectedMessages ==
  {[json |-> FALSE, playerId |-> "", username |-> "", gameMode |-> 0,
    score |-> 0, scoreKind |-> "undefined"],
   [json |-> TRUE, playerId |-> "", username |-> "a", gameMode |-> 1,
    score |-> 1, scoreKind |-> "number"],
   [json |-> TRUE, playerId |-> "p1", username |-> "a", gameMode |-> 1,
    score |-> 0, scoreKind |-> "undefined"],
   [json |-> TRUE, playerId |-> "p2", username |-> "b", gameMode |-> 1,
    score |-> 0, scoreKind |-> "empty"]} \cup MalformedEvents

ParseMessages ==
  {ScoreEvent("p1", 1, 1, "a"), ScoreEvent("p2", 1, 2, "b")}
    \cup RejectedMessages

\* The tailing engine on a topic that carries such messages.
NextParse ==
  \/ \E m \in ParseMessages : PublishScoreSubmitted(m)
  \/ StartTailing
  \/ EachBatch
  \/ SnapshotRanks
  \/ HotApply
  \/ HotNotify
  \/ StandaloneApply
  \/ StandaloneNotify
  \/ EachBatchReturn

SpecParse == InitFaults /\ [][NextParse]_vars

\* What makes a message malformed.
Malformed(m) ==
  \/ ~m.json
  \/ m.playerId = ""
  \/ m.scoreKind \in {"undefined", "null", "empty"}

\* The messages msgs with the malformed ones taken out.
WithoutMalformed(msgs) == SelectSeq(msgs, LAMBDA m : ~Malformed(m))

\* Offsets of the malformed messages of the topic.
MalformedOffsets == {o \in 1..Len(log) : Malformed(log[o])}

\* C21: a malformed message changes nothing in the store and emits
\* nothing, and the valid events of its batch are handled as if it were
\* absent: the handler works on the batch without its malformed messages,
\* leaves the store that batch leads to, publishes and purges for valid
\* events only, and a batch of malformed messages alone leaves store,
\* publications and purges as they were.
C21_MalformedMessageIsAbsent ==
  /\ [](pc # "idle" =>
         events = WithoutMalformed(BatchMessages(log, offset, batchLen)))
  /\ [](pc = "return" =>
         redis = EachBatchStore(
                   storeAtBatch,
                   WithoutMalformed(BatchMessages(log, offset, batchLen))))
  /\ [](/\ \A i \in 1..Len(published) :
             published[i].event \notin MalformedOffsets
        /\ \A i \in 1..Len(purged) : purged[i].event \notin MalformedOffsets)
  /\ [][(/\ offset' > offset
          /\ \A o \in (offset + 1)..offset' : Malformed(log[o])) =>
         (redis' = redis /\ published' = published /\ purged' = purged)]_vars

\* A batch with a malformed message between two valid events of one key is
\* about to return, both events applied and published.
C21_Witness ==
  /\ pc = "return"
  /\ batchLen = 3
  /\ Malformed(log[offset + 2])
  /\ Len(events) = 2
  /\ KeyOf(events[1]) = KeyOf(events[2])
  /\ redis.global[1]["p1"] = 2
  /\ Len(published) >= 1

(* ---------------------------------------------------------------------- *)
(* Times to live of the leaderboard keys                                   *)
(* ---------------------------------------------------------------------- *)

\* A submission with score 0, which the route accepts.
ZeroScoreEvent == ScoreEvent("p1", 2, 0, "a")

\* An event the parse loop accepts (the score is defined) with a score
\* below 0.
NegativeScoreEvent == ScoreEvent("p1", 1, -1, "a")

BucketMessages ==
  {ScoreEvent("p1", 1, 1, "a"), ScoreEvent("p2", 1, 2, "b"), ZeroScoreEvent,
   NegativeScoreEvent, TextScoreEvent}

\* The tailing engine on a topic with scores of 0, scores below 0 and
\* scores that are text.
NextBuckets ==
  \/ \E m \in BucketMessages : PublishScoreSubmitted(m)
  \/ StartTailing
  \/ EachBatch
  \/ SnapshotRanks
  \/ HotApply
  \/ HotNotify
  \/ StandaloneApply
  \/ StandaloneNotify
  \/ EachBatchReturn

SpecBuckets == InitFaults /\ [][NextBuckets]_vars

\* C22: a step that writes a daily (weekly) bucket leaves it with a time to
\* live of 7 days = 604800 s (28 days = 2419200 s), every bucket that holds
\* a member has that time to live, and no global leaderboard key has one.
C22_BucketsExpire ==
  /\ [][\A g \in GameModes :
          /\ (redis'.daily[g] # redis.daily[g]) => redis'.dailyTtl[g] = 604800
          /\ (redis'.weekly[g] # redis.weekly[g]) =>
               redis'.weeklyTtl[g] = 2419200]_vars
  /\ [](\A g \in GameModes :
          /\ (DOMAIN redis.daily[g] # {}) => redis.dailyTtl[g] = 604800
          /\ (DOMAIN redis.weekly[g] # {}) => redis.weeklyTtl[g] = 2419200
          /\ redis.globalTtl[g] = 0)

\* A score of 0 wrote the daily bucket of game mode 2 and no weekly
\* bucket, and a positive score wrote both buckets of game mode 1.
C22_Witness ==
  /\ pc = "return"
  /\ "p1" \in DOMAIN redis.daily[2]
  /\ redis.dailyTtl[2] = DAILY_TTL
  /\ DOMAIN redis.weekly[2] = {}
  /\ "p2" \in DOMAIN redis.weekly[1]
  /\ redis.weeklyTtl[1] = WEEKLY_TTL
  /\ "p2" \in DOMAIN redis.global[1]

(* ---------------------------------------------------------------------- *)
(* Notifications with oldRank null                                         *)
(* ---------------------------------------------------------------------- *)

\* The notifications of the batch emitted for the event at offset o.
PublishedForEvent(o) == SelectSeq(published, LAMBDA x : x.event = o)

\* The notifications added by the step.
NewPublished == SubSeq(published', Len(published) + 1, Len(published'))

\* C23: in a batch handled in normal mode an event applied while its
\* player has no entry in the global leaderboard of its game mode gets
\* exactly one notification, with oldRank null; every notification carries
\* the 1-indexed rank and the global score the player has in the store when
\* it is published; oldRank is null only if the player had no entry right
\* before the event was applied.
C23_NullOldRankOnFirstEntry ==
  /\ []((pc = "return" /\ ~batchRebuilding) =>
         \A j \in 1..Len(events) :
           (rankBefore[events[j].offset] = NullRank) =>
             /\ Len(PublishedForEvent(events[j].offset)) = 1
             /\ PublishedForEvent(events[j].offset)[1].oldRank = NullRank
             /\ PublishedForEvent(events[j].offset)[1].score =
                  events[j].score)
  /\ [](\A i \in 1..Len(published) :
          (published[i].oldRank = NullRank) =>
            rankBefore[published[i].event] = NullRank)
  /\ [][\A i \in 1..Len(NewPublished) :
          LET n == NewPublished[i]
              z == redis.global[n.gameMode]
          IN /\ n.playerId \in DOMAIN z
             /\ n.newRank = redis.crowd[n.gameMode] +
                              Cardinality({m \in DOMAIN z :
                                \/ z[m] > z[n.playerId]
                                \/ (z[m] = z[n.playerId] /\ m = "p2"
                                      /\ n.playerId = "p1")}) + 1
             /\ n.score = z[n.playerId]]_vars

\* A batch handled in normal mode brought two players into an empty
\* leaderboard, one at rank 1 and one at rank 2.
C23_Witness ==
  /\ pc = "return"
  /\ ~batchRebuilding
  /\ Len(published) = 2
  /\ published[1].oldRank = NullRank
  /\ published[2].oldRank = NullRank
  /\ published[1].gameMode = published[2].gameMode
  /\ {published[1].newRank, published[2].newRank} = {1, 2}
  /\ DOMAIN storeAtBatch.global[published[1].gameMode] = {}

(* ---------------------------------------------------------------------- *)
(* The start: reset of the group offsets and subscription                  *)
(* ---------------------------------------------------------------------- *)

\* C24: when startConsumer resets the group and consumer.disconnect fails,
\* or admin.deleteGroups fails for another reason than the group not
\* existing, resetConsumerOffsetToEarliest returns false.
C24_ResetFailureReturnsFalse ==
  [][\A fault \in StoreFaults, r \in ResetOutcomes :
       (/\ Start(fault, r)
        /\ NeedsRebuild(redis, fault)
        /\ r.adminConnect = "ok"
        /\ (r.disconnect = "fail" \/ r.deleteGroups = "fail")) =>
         startCalls'[2] = StartCall("resetConsumerOffsetToEarliest", FALSE)]_vars

\* Positions of the calls named call among the calls of startConsumer.
CallsNamed(calls, call) == {i \in 1..Len(calls) : calls[i].call = call}

\* C28: a start subscribes with fromBeginning = true exactly when
\* needsRebuild returned true; then the reset of the group offsets comes
\* before the subscription, the subscription is from the beginning whatever
\* the reset returned, the engine is in rebuild mode and the idle check is
\* armed; otherwise no reset is made, the subscription is with
\* fromBeginning = false, the engine is in normal mode and no idle check is
\* armed.
C28_SubscriptionFollowsNeedsRebuild ==
  [][(~isRunning /\ isRunning') =>
         LET calls == startCalls'
             sub == CallsNamed(calls, "subscribe fromBeginning")
             reset == CallsNamed(calls, "resetConsumerOffsetToEarliest")
             timer == CallsNamed(calls, "setInterval")
             needsRebuild == calls[1].value
         IN /\ calls[1].call = "needsRebuild"
            /\ Cardinality(sub) = 1
            /\ \A i \in sub : calls[i].value = needsRebuild
            /\ IF needsRebuild
                 THEN /\ Cardinality(reset) = 1
                      /\ \A i \in reset, j \in sub : i < j
                      /\ Cardinality(timer) = 1
                      /\ isRebuilding'
                      /\ rebuildCheckInterval'
                      /\ timeSinceLastBatch' = 0
                 ELSE /\ reset = {}
                      /\ timer = {}
                      /\ ~isRebuilding'
                      /\ ~rebuildCheckInterval'
                      /\ timeSinceLastBatch' = NullTime]_vars

\* The engine runs in rebuild mode, subscribed from the beginning with the
\* idle check armed, after a reset that returned false and left the
\* committed offset in place.
C28_Witness ==
  /\ isRunning
  /\ isRebuilding
  /\ rebuildCheckInterval
  /\ offset > 0
  /\ StartCall("resetConsumerOffsetToEarliest", FALSE) \in
       {startCalls[i] : i \in 1..Len(startCalls)}
  /\ StartCall("subscribe fromBeginning", TRUE) \in
       {startCalls[i] : i \in 1..Len(startCalls)}

(* ---------------------------------------------------------------------- *)
(* redisService.getWeekIdentifier                                          *)
(* ---------------------------------------------------------------------- *)

\* Years the clock may be in: the year, getDay() of its 1 January (0 is
\* Sunday) and its number of days.
Years ==
  {[year |-> 2023, jan1 |-> 0, days |-> 365],
   [year |-> 2025, jan1 |-> 3, days |-> 365],
   [year |-> 2028, jan1 |-> 6, days |-> 366]}

\* The instants of a year, in hours elapsed since its 1 January 00:00.
HoursOf(y) == 0..(y.days * 24 - 1)

DigitChar == <<"0", "1", "2", "3", "4", "5", "6", "7", "8", "9">>

\* Number.prototype.toString of a non-negative integer.
RECURSIVE Digits(_)
Digits(n) ==
  IF n < 10
    THEN <<DigitChar[n + 1]>>
    ELSE Digits(n \div 10) \o <<DigitChar[(n % 10) + 1]>>

\* PadStart that pads nothing.
Mut_PadStart(str, len, pad) == str

\* String.prototype.padStart with a pad of one character.
RECURSIVE PadStart(_, _, _)
PadStart(str, len, pad) ==
  IF Len(str) >= len THEN str ELSE PadStart(<<pad>> \o str, len, pad)

\* Math.ceil(a / b) for a >= 0, b > 0.
CeilDiv(a, b) == (a + b - 1) \div b

\* Math.ceil((pastDaysOfYear + startOfYear.getDay() + 1) / 7), where
\* pastDaysOfYear = (date - startOfYear) / 86400000 is hours / 24.
WeekNumber(y, hours) == CeilDiv(hours + 24 * y.jan1 + 24, 7 * 24)

\* `${year}-W${weekNumber.toString().padStart(2, "0")}`
GetWeekIdentifier(y, hours) ==
  Digits(y.year) \o <<"-", "W">> \o
  PadStart(Digits(WeekNumber(y, hours)), 2, "0")

\* The key updateWeeklyLeaderboard writes.
WeeklyKeyOnWrite(gameMode, y, hours) ==
  <<"leaderboard:", gameMode, ":weekly:">> \o GetWeekIdentifier(y, hours)

\* The key getWeeklyLeaderboard reads when it is given no weekId.
WeeklyKeyOnRead(gameMode, y, hours) ==
  <<"leaderboard:", gameMode, ":weekly:">> \o GetWeekIdentifier(y, hours)

\* getWeekIdentifier and the two keys built from it at one instant (one
\* instant per behaviour).
GetWeekIdentifierCall ==
  /\ lastCall = NoCall
  /\ \E y \in Years : \E hours \in HoursOf(y) :
       lastCall' =
         [op |-> "getWeekIdentifier",
          input |-> [year |-> y.year, jan1 |-> y.jan1, hours |-> hours],
          output |-> [id |-> GetWeekIdentifier(y, hours),
                      written |-> WeeklyKeyOnWrite(1, y, hours),
                      read |-> WeeklyKeyOnRead(1, y, hours)]]
  /\ UNCHANGED <<log, offset, redis, engineVars, handlerVars, replayRun,
                 backlog, switches, emptyRun, batchRebuilding, storeAtBatch,
                 rankBefore, rankAfter, throws, startCalls, clockVars, taskVars>>

NextWeek == GetWeekIdentifierCall

SpecWeek == Init /\ [][NextWeek]_vars

\* The digit a character stands for.
DigitValue(c) == CHOOSE d \in 0..9 : DigitChar[d + 1] = c

IsDigit(c) == \E d \in 0..9 : DigitChar[d + 1] = c

NoDuration == -1

\* initializeGameModes: max_score_per_game and avg_game_duration_minutes.
MaxScorePerGame == [g \in GameModes |-> IF g = 1 THEN 15000 ELSE 20000]

AvgGameDurationMinutes == [g \in GameModes |-> IF g = 1 THEN 10 ELSE 15]

\* A request body.
SubmitRequest(playerId, username, gameMode, score, duration) ==
  [playerId |-> playerId, username |-> username, gameMode |-> gameMode,
   score |-> score, gameDurationSeconds |-> duration]

\* Bodies the route is given: two that pass every validation, one each
\* failing a rule of the field validation, one with a game mode that is not
\* listed, one above the game mode's maximum, one with a suspicious
\* duration.
SubmitRequests ==
  {SubmitRequest("p1", "a", 1, 1, NoDuration),
   SubmitRequest("p2", "b", 1, 2, 300),
   SubmitRequest("", "a", 1, 1, NoDuration),
   SubmitRequest("p1", "", 1, 1, NoDuration),
   SubmitRequest("p1", "a", 0, 1, NoDuration),
   SubmitRequest("p1", "a", 1, -1, NoDuration),
   SubmitRequest("p1", "a", 9, 1, NoDuration),
   SubmitRequest("p1", "a", 1, 15001, NoDuration),
   SubmitRequest("p1", "a", 1, 1, 10)}

\* validateScoreSubmission with handleValidationErrors: no error of the
\* express-validator chains.
FieldsValid(req) ==
  /\ req.playerId # ""
  /\ req.username # ""
  /\ req.gameMode >= 1
  /\ req.score >= 0
  /\ (req.gameDurationSeconds # NoDuration => req.gameDurationSeconds >= 0)

\* validationService.validatePlayerData(playerId, username).valid
ValidatePlayerData(playerId, username) == playerId # "" /\ username # ""

\* The type of what the store holds at a key.
KeyType(store, key) ==
  IF \E p \in DOMAIN store.players : RecordKey(p) = key
    THEN "hash"
    ELSE IF \E p \in store.lastSubmission : RateLimitKey(p) = key
           THEN "string"
           ELSE "none"

\* redisService.checkRateLimit(playerId, 60): GET of the rate-limit key
\* rejects on a key of another type; a key that is there (SETEX gave it 60
\* seconds to live) refuses the submission; else SETEX writes it.
CheckRateLimit(store, playerId) ==
  LET type == KeyType(store, RateLimitKey(playerId)) IN
    IF type = "hash"
      THEN [rejects |-> TRUE, allowed |-> FALSE, store |-> store]
      ELSE IF type = "string"
             THEN [rejects |-> FALSE, allowed |-> FALSE, store |-> store]
             ELSE [rejects |-> FALSE, allowed |-> TRUE,
                   store |-> [store EXCEPT !.lastSubmission =
                                             @ \cup {playerId}]]

\* Checks 1 to 3 of validationService.validateScore find no error.
ScoreChecksPass(req) ==
  /\ req.score <= MaxScorePerGame[req.gameMode]
  /\ req.score >= 0
  /\ \/ req.gameDurationSeconds = NoDuration
     \/ /\ 10 * req.gameDurationSeconds
             >= 3 * (AvgGameDurationMinutes[req.gameMode] * 60)
        /\ req.gameDurationSeconds
             <= 3 * (AvgGameDurationMinutes[req.gameMode] * 60)

\* redisService.createOrUpdatePlayer: EXISTS, then HSET of the four fields
\* or of username in a pipeline; on a key of another type the HSET fails
\* inside the pipeline and exec does not reject.
CreateOrUpdatePlayer(store, playerId, username) ==
  IF KeyType(store, RecordKey(playerId)) = "string"
    THEN store
    ELSE IF PlayerExists(store, playerId)
           THEN HSetUsername(store, playerId, username)
           ELSE HSetNewPlayer(store, playerId, username)

\* The call of the handler that rejects, if any.
SubmitFaults ==
  {"none", "getGameMode", "checkRateLimit", "createOrUpdatePlayer", "send"}

\* What scoreSubmissionLimiter does with the request: next() or the 429 of
\* its handler (more than 10 requests of the address in the minute).
LimiterOutcomes == {"next", "limited"}

\* producer.send of publishScoreSubmitted: one message, the key playerId.
SendScoreSubmitted(req) ==
  [topic |-> "score-submitted", key |-> req.playerId,
   value |-> ScoreEvent(req.playerId, req.gameMode, req.score,
                        req.username)]

SubmitAnswer(status, error, store, sent) ==
  [status |-> status, error |-> error, store |-> store, sent |-> sent]

\* SubmitAfterChecks sending the message before it answers that the score
\* validation failed.
Mut_SubmitAfterChecks(store, req, fault) ==
  LET limit == CheckRateLimit(store, req.playerId)
      created == CreateOrUpdatePlayer(limit.store, req.playerId,
                                      req.username)
  IN
    IF fault = "checkRateLimit" \/ limit.rejects
      THEN SubmitAnswer("raise", "", store, <<>>)
      ELSE IF ~(ScoreChecksPass(req) /\ limit.allowed)
        THEN SubmitAnswer("400", "Score validation failed", limit.store,
                          <<SendScoreSubmitted(req)>>)
        ELSE IF fault = "createOrUpdatePlayer"
          THEN SubmitAnswer("raise", "", limit.store, <<>>)
          ELSE IF fault = "send"
            THEN SubmitAnswer("raise", "", created, <<>>)
            ELSE SubmitAnswer("202", "", created,
                              <<SendScoreSubmitted(req)>>)

\* The handler once the game mode is found: the rest of validateScore
\* (checks 1 to 3 and checkRateLimit), createOrUpdatePlayer,
\* publishScoreSubmitted, the 202.  status "raise": the handler rejects.
SubmitAfterChecks(store, req, fault) ==
  LET limit == CheckRateLimit(store, req.playerId)
      created == CreateOrUpdatePlayer(limit.store, req.playerId,
                                      req.username)
  IN
    IF fault = "checkRateLimit" \/ limit.rejects
      THEN SubmitAnswer("raise", "", store, <<>>)
      ELSE IF ~(ScoreChecksPass(req) /\ limit.allowed)
        THEN SubmitAnswer("400", "Score validation failed", limit.store,
                          <<>>)
        ELSE IF fault = "createOrUpdatePlayer"
          THEN SubmitAnswer("raise", "", limit.store, <<>>)
          ELSE IF fault = "send"
            THEN SubmitAnswer("raise", "", created, <<>>)
            ELSE SubmitAnswer("202", "", created,
                              <<SendScoreSubmitted(req)>>)

\* router.post("/submit", scoreSubmissionLimiter, validateScoreSubmission,
\* handler): the answer, the store afterwards and the messages sent.
SubmitScore(store, req, limiter, fault) ==
  IF limiter = "limited"
    THEN SubmitAnswer("429", "Too many score submissions", store, <<>>)
    ELSE IF ~FieldsValid(req)
      THEN SubmitAnswer("400", "Validation failed", store, <<>>)
      ELSE IF ~ValidatePlayerData(req.playerId, req.username)
        THEN SubmitAnswer("400", "Validation failed", store, <<>>)
        ELSE IF fault = "getGameMode"
          THEN SubmitAnswer("raise", "", store, <<>>)
          ELSE IF req.gameMode \notin store.gameModes
            THEN SubmitAnswer("400", "Score validation failed", store, <<>>)
            ELSE SubmitAfterChecks(store, req, fault)

\* One request handled.
Submit(req, limiter, fault) ==
  LET answer == SubmitScore(redis, req, limiter, fault) IN
    /\ Len(log) + Len(answer.sent) <= MaxLog
    /\ log' = log \o [i \in 1..Len(answer.sent) |-> answer.sent[i].value]
    /\ redis' = answer.store
    /\ lastCall' =
         [op |-> "submit",
          input |-> [req |-> req, limiter |-> limiter, fault |-> fault],
          output |-> [status |-> answer.status, error |-> answer.error,
                      sent |-> answer.sent]]
    /\ UNCHANGED <<offset, engineVars, handlerVars, replayRun, backlog,
                   switches, emptyRun, batchRebuilding, storeAtBatch,
                   rankBefore, rankAfter, throws, startCalls, clockVars, taskVars>>

\* The 60 seconds of a rate-limit key are over.
ExpireRateLimitKey ==
  /\ \E p \in redis.lastSubmission :
       redis' = [redis EXCEPT !.lastSubmission = @ \ {p}]
  /\ UNCHANGED <<log, offset, engineVars, handlerVars, historyVars, clockVars, taskVars>>

SubmitAny ==
  \E req \in SubmitRequests, limiter \in LimiterOutcomes,
     fault \in SubmitFaults : Submit(req, limiter, fault)

NextSubmit ==
  \/ SubmitAny
  \/ ExpireRateLimitKey

SpecSubmit == Init /\ [][NextSubmit]_vars

\* The submission passes the field validation, validatePlayerData and
\* validateScore on this store.
PassesValidation(store, req) ==
  /\ FieldsValid(req)
  /\ ValidatePlayerData(req.playerId, req.username)
  /\ req.gameMode \in store.gameModes
  /\ ScoreChecksPass(req)
  /\ KeyType(store, RateLimitKey(req.playerId)) = "none"

\* The request sent one message to score-submitted, keyed by its playerId.
PublishedOnce(req, sent) ==
  /\ Len(sent) = 1
  /\ sent[1].topic = "score-submitted"
  /\ sent[1].key = req.playerId
  /\ sent[1].value.playerId = req.playerId
  /\ log' = Append(log, sent[1].value)

\* A step that handles the request recorded in lastCall'.
SubmitStep ==
  /\ lastCall'.op = "submit"
  /\ Submit(lastCall'.input.req, lastCall'.input.limiter,
            lastCall'.input.fault)

RECURSIVE ParseInt(_)
ParseInt(str) ==
  IF str = <<>>
    THEN 0
    ELSE 10 * ParseInt(SubSeq(str, 1, Len(str) - 1))
           + (CHOOSE d \in 0..9 : DigitChar[d + 1] = str[Len(str)])

\* HGETALL of a player:{id} hash: every value is a text.
HGetAllPlayer(store, playerId) ==
  [username |-> store.players[playerId].username,
   total_score |-> Digits(store.players[playerId].total_score),
   games_played |-> Digits(store.players[playerId].games_played)]

\* redisService.getPlayer(playerId): HGETALL rejects on a key that holds a
\* string; no field, null; else the fields, the two counters parsed.
GetPlayer(store, playerId) ==
  LET type == KeyType(store, RecordKey(playerId)) IN
    IF type = "string"
      THEN [kind |-> "raise"]
      ELSE IF type = "none"
        THEN [kind |-> "null"]
        ELSE LET playerData == HGetAllPlayer(store, playerId) IN
               [kind |-> "player", id |-> playerId,
                username |-> playerData.username,
                total_score |-> ParseInt(playerData.total_score),
                games_played |-> ParseInt(playerData.games_played)]

\* The ids getPlayer is asked for (GET /api/players/:id/stats).
PlayerIds == Players \cup {CollidingPlayer}

GetPlayerCall(playerId) ==
  /\ lastCall' = [op |-> "getPlayer", input |-> playerId,
                  output |-> GetPlayer(redis, playerId)]
  /\ UNCHANGED <<log, offset, redis, engineVars, handlerVars, replayRun,
                 backlog, switches, emptyRun, batchRebuilding, storeAtBatch,
                 rankBefore, rankAfter, throws, startCalls, clockVars, taskVars>>

\* The submissions of two players that pass every validation.
ValidRequests ==
  {SubmitRequest("p1", "a", 1, 1, NoDuration),
   SubmitRequest("p2", "b", 1, 2, 300)}

\* Players submit, the engine tails the topic, players are looked up.
NextPlayers ==
  \/ \E req \in ValidRequests : Submit(req, "next", "none")
  \/ ExpireRateLimitKey
  \/ \E playerId \in PlayerIds : GetPlayerCall(playerId)
  \/ StartTailing
  \/ EachBatch
  \/ SnapshotRanks
  \/ HotApply
  \/ HotNotify
  \/ StandaloneApply
  \/ StandaloneNotify
  \/ EachBatchReturn

SpecPlayers == InitFaults /\ [][NextPlayers]_vars

\* A step that is the call of getPlayer recorded in lastCall'.
GetPlayerStep ==
  /\ lastCall'.op = "getPlayer"
  /\ GetPlayerCall(lastCall'.input)

\* C26: getPlayer(id) returns none exactly when no player record exists
\* for id; otherwise it returns the stored username with total_score and
\* games_played as integers equal to the stored values; and no step removes
\* a player record.
C26_GetPlayerReturnsRecord ==
  /\ [][GetPlayerStep =>
          LET id == lastCall'.input
              out == lastCall'.output
          IN
            /\ out.kind = "null" <=> ~PlayerExists(redis, id)
            /\ PlayerExists(redis, id) =>
                 /\ out.kind = "player"
                 /\ out.username = redis.players[id].username
                 /\ out.total_score = redis.players[id].total_score
                 /\ out.games_played = redis.players[id].games_played]_vars
  /\ [][\A p \in DOMAIN redis.players : p \in DOMAIN redis'.players]_vars

(* ---------------------------------------------------------------------- *)
(* The count of empty batches                                              *)
(* ---------------------------------------------------------------------- *)

\* A step in which eachBatch handles a batch without valid event in rebuild
\* mode: the history of such batches in a row grows.
EmptyReplayBatchStep == isRebuilding /\ emptyRun' = emptyRun + 1

\* A step in which eachBatch takes a batch with at least one valid event.
BatchWithEventsStep == pc = "idle" /\ pc' = "snapshot"

\* C29: while replaying, consecutiveEmptyBatches grows by exactly one for
\* each batch with zero valid events and is reset to 0 by any batch with at
\* least one valid event, so that it is the number of empty batches handled
\* in a row; replay is left on this path exactly when the third of them is
\* handled; the counter is never incremented while tailing.
C29_EmptyBatchCounter ==
  /\ [](isRebuilding => consecutiveEmptyBatches = emptyRun)
  /\ [][(EmptyReplayBatchStep /\ isRebuilding') =>
          consecutiveEmptyBatches' = consecutiveEmptyBatches + 1]_vars
  /\ [][(isRebuilding /\ BatchWithEventsStep) =>
          (consecutiveEmptyBatches' = 0 /\ isRebuilding')]_vars
  /\ [][EmptyReplayBatchStep =>
          (~isRebuilding' <=> emptyRun' = EMPTY_BATCH_THRESHOLD)]_vars
  /\ [][~isRebuilding =>
          consecutiveEmptyBatches' <= consecutiveEmptyBatches]_vars

\* C29 witness: a replay handled a batch with events, then three batches
\* without, and left rebuild mode at the third.
C29_Witness ==
  /\ isRunning
  /\ replayRun
  /\ ~isRebuilding
  /\ switches = 1
  /\ emptyRun = EMPTY_BATCH_THRESHOLD
  /\ consecutiveEmptyBatches = 0
  /\ offset > 0
  /\ DOMAIN redis.players # {}

(* ---------------------------------------------------------------------- *)
(* The idle watcher                                                        *)
(* ---------------------------------------------------------------------- *)

\* The grain of time: batches arrive on a callback or half an interval
\* after one.
ClockStep == CHECK_INTERVAL \div 2

\* The engine from its start with time passing between the callbacks of
\* the watcher.
NextIdle ==
  \/ \E m \in NumericMessages : PublishScoreSubmitted(m)
  \/ StartOnBroker
  \/ TimePasses(ClockStep)
  \/ RebuildCheck
  \/ EachBatch
  \/ SnapshotRanks
  \/ HotApply
  \/ HotNotify
  \/ StandaloneApply
  \/ StandaloneNotify
  \/ EachBatchReturn

SpecIdle == Init /\ [][NextIdle]_vars

\* A step in which rebuild mode is left and not by the count of empty
\* batches: the watcher's callback switched.
WatcherSwitchStep ==
  /\ isRunning
  /\ isRebuilding
  /\ ~isRebuilding'
  /\ emptyRun' # EMPTY_BATCH_THRESHOLD

C31_TailingLeavesNothingArmed ==
  /\ [](~isRebuilding =>
          /\ ~rebuildCheckInterval
          /\ consecutiveEmptyBatches = 0
          /\ timeSinceLastBatch = NullTime)
  /\ [][(isRunning /\ ~isRebuilding /\ isRunning') =>
          /\ ~isRebuilding'
          /\ switches' = switches
          /\ UNCHANGED <<consecutiveEmptyBatches, timeSinceLastBatch,
                         rebuildCheckInterval, sinceLastCheck>>]_vars

\* C31 witness: after a replay that consumed messages was left, once, a
\* batch with events is being handled in tailing mode.
C31_Witness ==
  /\ isRunning
  /\ replayRun
  /\ ~isRebuilding
  /\ switches = 1
  /\ offset > 0
  /\ pc = "standaloneNotify"
  /\ ~batchRebuilding

(* ---------------------------------------------------------------------- *)
(* The weekly step                                                         *)
(* ---------------------------------------------------------------------- *)

\* The events of the batch of player p in game mode g whose weekly step is
\* not to be skipped: the score is a number above 0.
WeeklyEvents(p, g) ==
  SelectSeq(events, LAMBDA e : /\ e.playerId = p
                               /\ e.gameMode = g
                               /\ e.scoreKind = "number"
                               /\ e.score > 0)

\* C32: the weekly step of an event is skipped exactly when its score is
\* at most 0 or not a number: when a batch has been handled, the weekly
\* score of every member has grown by the sum of the scores above 0 of its
\* events in the batch, and a member is in the weekly bucket only if it was
\* there before or has such an event.
C32_WeeklySkipsNonPositive ==
  (pc = "return") =>
    \A p \in Players, g \in GameModes :
      /\ ScoreIn(redis.weekly[g], p) =
           ScoreIn(storeAtBatch.weekly[g], p) + SumOfScores(WeeklyEvents(p, g))
      /\ (p \in DOMAIN redis.weekly[g]) <=>
           \/ p \in DOMAIN storeAtBatch.weekly[g]
           \/ WeeklyEvents(p, g) # <<>>

(* ---------------------------------------------------------------------- *)
(* The weekly update when its store call fails                             *)
(* ---------------------------------------------------------------------- *)

\* The standalone loop when the store refuses the calls of
\* updateWeeklyLeaderboard: the calls are not awaited and their rejection
\* is caught and logged; the pipeline is queued and executed as usual.
StandaloneApplyWeeklyRejects ==
  /\ pc = "standalone"
  /\ StandaloneEvents(events) # <<>>
  /\ LET sevs == StandaloneEvents(events) IN
       /\ redis' = [StandalonePipeline(redis, redis, sevs) EXCEPT
                      !.weekly = redis.weekly,
                      !.weeklyTtl = redis.weeklyTtl]
       /\ rankBefore' = rankBefore @@ StandaloneRanks(redis, redis, sevs, FALSE)
       /\ rankAfter' = rankAfter @@ StandaloneRanks(redis, redis, sevs, TRUE)
       /\ pc' = "standaloneNotify"
  /\ UNCHANGED <<log, offset, engineVars, batchLen, events, initialRanks,
                 currentRanks, hotQueue, previousRank, newRankData, published,
                 purged, replayRun, backlog, switches, emptyRun,
                 batchRebuilding, storeAtBatch, throws,
                 startCalls, lastCall, clockVars, taskVars>>

\* The tailing engine on a store that may refuse a call: an awaited call
\* rejects and the batch is delivered again, or the weekly calls of the
\* standalone loop reject.
NextWeeklyFaults ==
  \/ \E m \in NumericMessages : PublishScoreSubmitted(m)
  \/ StartTailing
  \/ EachBatch
  \/ SnapshotRanks
  \/ HotApply
  \/ HotNotify
  \/ StandaloneApply
  \/ StandaloneApplyWeeklyRejects
  \/ StandaloneNotify
  \/ EachBatchReturn
  \/ StoreCallRejects
  \/ Redeliver

SpecWeeklyFaults == InitFaults /\ [][NextWeeklyFaults]_vars

\* C33: when eachBatch returns, the weekly score of every member holds the
\* increment of each of its events of the batch with a score above 0, for
\* events of hot groups and standalone events alike, also when a weekly
\* store call failed while the batch was handled.
C33_WeeklyAppliedAtReturn ==
  (pc = "return") =>
    \A e \in {events[i] : i \in 1..Len(events)} :
      ScoreIn(redis.weekly[e.gameMode], e.playerId) =
        ScoreIn(storeAtBatch.weekly[e.gameMode], e.playerId)
          + SumOfScores(WeeklyEvents(e.playerId, e.gameMode))

(* ---------------------------------------------------------------------- *)
(* Hot groups                                                              *)
(* ---------------------------------------------------------------------- *)

\* A step of the sequential loop that applies the event at the head of
\* hotQueue.
HotApplyStep == pc = "hot" /\ pc' = "hotNotify"

\* The events of the batch that share e's key and arrived before e.
EarlierOfKey(e) ==
  SelectSeq(events, LAMBDA x : KeyOf(x) = KeyOf(e) /\ x.offset < e.offset)

\* C34: the events of a hot group are applied one at a time in arrival
\* order: when an event is applied every earlier event of its key has been
\* applied and it has not, and the step adds this event's score alone to
\* the key's global score; the first event of the group takes as oldRank
\* the key's rank in the store as it was when the batch was taken, every
\* later event the rank read after the event of the key before it.
C34_HotGroupInArrivalOrder ==
  [][HotApplyStep =>
       LET e == Head(hotQueue)
           earlier == EarlierOfKey(e)
       IN /\ \A i \in 1..Len(earlier) :
               earlier[i].offset \in DOMAIN rankAfter
          /\ e.offset \notin DOMAIN rankAfter
          /\ e.offset \in DOMAIN rankAfter'
          /\ ScoreIn(redis'.global[e.gameMode], e.playerId) =
               ScoreIn(redis.global[e.gameMode], e.playerId) + e.score
          /\ previousRank' =
               IF earlier = <<>>
                 THEN GetPlayerRank(storeAtBatch, e.gameMode, e.playerId).rank
                 ELSE rankAfter[earlier[Len(earlier)].offset]]_vars

\* C34 witness: the second event of a hot group whose player was not in
\* the leaderboard when the batch was taken has been applied with the rank
\* read after the first as oldRank.
C34_Witness ==
  /\ pc = "hotNotify"
  /\ Len(EarlierOfKey(Head(hotQueue))) = 1
  /\ initialRanks[KeyOf(Head(hotQueue))] = NullRank
  /\ previousRank # NullRank
  /\ previousRank = rankAfter[EarlierOfKey(Head(hotQueue))[1].offset]

(* ---------------------------------------------------------------------- *)
(* A batch taken in rebuild mode and the idle check                        *)
(* ---------------------------------------------------------------------- *)

\* C36: a batch that was taken while isRebuilding was true sends no
\* leaderboard-updated message and purges no cache path, whatever the idle
\* check does while the handler waits for the store.
C36_ReplayBatchIsSilent ==
  [][(Len(published') > Len(published) \/ Len(purged') > Len(purged)) =>
       ~batchRebuilding]_vars

(* ---------------------------------------------------------------------- *)
(* A batch that is aborted half way and delivered again                    *)
(* ---------------------------------------------------------------------- *)

\* C37: once a batch that was aborted by a rejected store call has been
\* delivered again and handled (nothing of the topic is left to consume),
\* every accepted event has been added once to
\* the global leaderboard of its key and once to total_score and
\* games_played of its player.
C37_RedeliveredBatchAppliedOnce ==
  (pc = "idle" /\ throws > 0 /\ offset = Len(log)) =>
    \A p \in Players :
      /\ \A g \in GameModes :
           ScoreIn(redis.global[g], p) =
             SumOfScores(EventsOfKey(Accepted, <<p, g>>))
      /\ TotalScoreOf(p) = SumOfScores(EventsOfPlayer(Accepted, p))
      /\ GamesPlayedOf(p) = Len(EventsOfPlayer(Accepted, p))

(* ---------------------------------------------------------------------- *)
(* The username of a player record                                         *)
(* ---------------------------------------------------------------------- *)

\* The last event of player p in the batch, in arrival order.
LastEventOf(p) ==
  EventsOfPlayer(events, p)[Len(EventsOfPlayer(events, p))]

\* C38: when a batch has been handled, the username of player:{p} is the
\* one of p's last event of the batch in arrival order, and for a player
\* that had a record when the batch was taken total_score and games_played
\* have grown by the batch's events of that player, the writes of the
\* username having reset neither.
C38_UsernameOfLastEvent ==
  (pc = "return") =>
    \A p \in Players :
      EventsOfPlayer(events, p) # <<>> =>
        /\ p \in DOMAIN redis.players
        /\ redis.players[p].username = LastEventOf(p).username
        /\ p \in DOMAIN storeAtBatch.players =>
             /\ redis.players[p].total_score =
                  storeAtBatch.players[p].total_score +
                    SumOfScores(EventsOfPlayer(events, p))
             /\ redis.players[p].games_played =
                  storeAtBatch.players[p].games_played +
                    Len(EventsOfPlayer(events, p))

(* ---------------------------------------------------------------------- *)
(* Two calls of startConsumer                                              *)
(* ---------------------------------------------------------------------- *)

\* startConsumer, call c, up to its first await: the test of isRunning,
\* then redisService.needsRebuild() is called.
StartGuard(c) ==
  /\ starters[c].pc = "none"
  /\ starters' =
       [starters EXCEPT ![c].pc =
          IF isRunning THEN "returned" ELSE "needsRebuild"]
  /\ UNCHANGED <<log, offset, redis, engineVars, handlerVars, historyVars,
                 clockVars, checks, shutdownPc, closed>>

\* needsRebuild() has returned to call c: isRebuilding is written, and
\* either resetConsumerOffsetToEarliest() is called (rebuild) or
\* consumer.subscribe() is (no rebuild).
StartNeedsRebuildReturns(c, fault) ==
  /\ starters[c].pc = "needsRebuild"
  /\ isRebuilding' = NeedsRebuild(redis, fault)
  /\ starters' =
       [starters EXCEPT
          ![c] = [pc |-> IF NeedsRebuild(redis, fault)
                           THEN "reset" ELSE "subscribe",
                  needsRebuild |-> NeedsRebuild(redis, fault)]]
  /\ startCalls' =
       IF NeedsRebuild(redis, fault)
         THEN Append(startCalls, StartCall("needsRebuild", TRUE))
         ELSE startCalls \o <<StartCall("needsRebuild", FALSE),
                              StartCall("subscribe fromBeginning", FALSE)>>
  /\ UNCHANGED <<log, offset, redis, isRunning, consecutiveEmptyBatches,
                 timeSinceLastBatch, rebuildCheckInterval, handlerVars,
                 replayRun, backlog, switches, emptyRun, batchRebuilding,
                 storeAtBatch, rankBefore, rankAfter, throws, lastCall,
                 clockVars, checks, shutdownPc, closed>>

\* resetConsumerOffsetToEarliest() has returned to call c, the broker
\* having answered every call of it: consumer.subscribe() is called from
\* the beginning.
StartResetReturns(c) ==
  /\ starters[c].pc = "reset"
  /\ offset' =
       ResetOffset(offset, ResetConsumerOffsetToEarliest(ResetNominal).deleted)
  /\ starters' = [starters EXCEPT ![c].pc = "subscribe"]
  /\ startCalls' =
       startCalls \o
         <<StartCall("resetConsumerOffsetToEarliest",
                     ResetConsumerOffsetToEarliest(ResetNominal).result),
           StartCall("subscribe fromBeginning", TRUE)>>
  /\ UNCHANGED <<log, redis, engineVars, handlerVars, replayRun, backlog,
                 switches, emptyRun, batchRebuilding, storeAtBatch,
                 rankBefore, rankAfter, throws, lastCall, clockVars, checks,
                 shutdownPc, closed>>

\* consumer.subscribe() has returned to call c: isRunning = true, the
\* setInterval when isRebuilding is set, and consumer.run() is called.
StartSubscribed(c) ==
  /\ starters[c].pc = "subscribe"
  /\ isRunning' = TRUE
  /\ starters' = [starters EXCEPT ![c].pc = "run"]
  /\ IF isRebuilding
       THEN /\ timeSinceLastBatch' = 0
            /\ rebuildCheckInterval' = TRUE
            /\ sinceLastCheck' = 0
            /\ idleFor' = 0
            /\ startCalls' =
                 startCalls \o
                   <<StartCall("setInterval", TRUE), StartCall("run", TRUE)>>
       ELSE /\ startCalls' = Append(startCalls, StartCall("run", TRUE))
            /\ UNCHANGED <<timeSinceLastBatch, rebuildCheckInterval,
                           clockVars>>
  /\ replayRun' = isRebuilding
  /\ backlog' = IF isRebuilding THEN Len(log) - offset ELSE 0
  /\ switches' = 0
  /\ emptyRun' = 0
  /\ UNCHANGED <<log, offset, redis, isRebuilding, consecutiveEmptyBatches,
                 handlerVars, batchRebuilding, storeAtBatch, rankBefore,
                 rankAfter, throws, lastCall, checks, shutdownPc, closed>>

\* The topic and the store when the process starts: a new deployment, or a
\* store in use.
InitStartTwice ==
  /\ log = <<>>
  /\ offset = 0
  /\ redis \in {EmptyStore, TailingStore(99)}
  /\ Stopped

\* Two calls of startConsumer and no call of stopConsumer, while producers
\* write to the topic.
NextStartTwice ==
  \/ \E m \in NumericMessages : PublishScoreSubmitted(m)
  \/ \E c \in StartCallers : StartGuard(c)
  \/ \E c \in StartCallers, fault \in StoreFaults :
       StartNeedsRebuildReturns(c, fault)
  \/ \E c \in StartCallers : StartResetReturns(c)
  \/ \E c \in StartCallers : StartSubscribed(c)

SpecStartTwice == InitStartTwice /\ [][NextStartTwice]_vars

\* The number of calls of the given kind that startConsumer has made.
CallsMade(call) == Len(SelectSeq(startCalls, LAMBDA x : x.call = call))

\* C39: two calls of startConsumer with no stop in between make at most
\* one subscription and start at most one consume loop and one idle timer,
\* whether the second call comes after the first has set isRunning or
\* while the first waits for needsRebuild, the offset reset or subscribe.
C39_StartedAtMostOnce ==
  /\ CallsMade("subscribe fromBeginning") <= 1
  /\ CallsMade("run") <= 1
  /\ CallsMade("setInterval") <= 1

(* ---------------------------------------------------------------------- *)
(* Two calls of checkRateLimit                                             *)
(* ---------------------------------------------------------------------- *)

\* checkRateLimit(playerId, 60), call c, up to its first await: GET of the
\* rate-limit key is sent.
CheckCalled(c, playerId) ==
  /\ checks[c].pc = "none"
  /\ checks' = [checks EXCEPT ![c] = [NoCheck EXCEPT !.pc = "get",
                                                    !.playerId = playerId]]
  /\ UNCHANGED <<log, offset, redis, engineVars, handlerVars, historyVars,
                 clockVars, starters, shutdownPc, closed>>

\* GET is answered to call c: a key that is there is less than 60 seconds
\* old (SETEX gave it 60 seconds to live) and the call returns
\* {allowed: false}; else SETEX is sent.
CheckGetReturns(c) ==
  /\ checks[c].pc = "get"
  /\ checks' =
       [checks EXCEPT
          ![c].lastSubmission = checks[c].playerId \in redis.lastSubmission,
          ![c].pc =
            IF KeyType(redis, RateLimitKey(checks[c].playerId)) = "hash"
              THEN "rejected"
              ELSE IF checks[c].playerId \in redis.lastSubmission
                     THEN "done" ELSE "setex"]
  /\ UNCHANGED <<log, offset, redis, engineVars, handlerVars, historyVars,
                 clockVars, starters, shutdownPc, closed>>

\* SETEX is answered to call c: the key is written and the call returns
\* {allowed: true}.
CheckSetexReturns(c) ==
  /\ checks[c].pc = "setex"
  /\ redis' = [redis EXCEPT !.lastSubmission = @ \cup {checks[c].playerId}]
  /\ checks' = [checks EXCEPT ![c].pc = "done", ![c].allowed = TRUE]
  /\ UNCHANGED <<log, offset, engineVars, handlerVars, historyVars,
                 clockVars, starters, shutdownPc, closed>>

\* A store in which some players have submitted within the last 60 seconds.
InitChecks ==
  /\ log = <<>>
  /\ offset = 0
  /\ \E recent \in SUBSET Players :
       redis = [EmptyStore EXCEPT !.lastSubmission = recent]
  /\ Stopped

\* Calls of checkRateLimit made within 60 seconds, no key expiring.
NextChecks ==
  \/ \E c \in CheckCallers, p \in Players : CheckCalled(c, p)
  \/ \E c \in CheckCallers : CheckGetReturns(c)
  \/ \E c \in CheckCallers : CheckSetexReturns(c)

SpecChecks == InitChecks /\ [][NextChecks]_vars

\* The calls of checkRateLimit for player p that returned {allowed: true}.
AllowedChecks(p) ==
  {c \in CheckCallers :
     /\ checks[c].pc = "done"
     /\ checks[c].playerId = p
     /\ checks[c].allowed}

\* C40: of the calls of checkRateLimit made for one player within 60
\* seconds at most one returns {allowed: true}, however the GET and the
\* SETEX of two calls interleave.
C40_OneSubmissionPerWindow ==
  \A p \in Players : Cardinality(AllowedChecks(p)) <= 1

(* ---------------------------------------------------------------------- *)
(* Shutdown                                                                *)
(* ---------------------------------------------------------------------- *)

\* What a connection answers to its disconnect / quit.
CloseOutcomes == {"ok", "fail"}

\* The order in which disconnect (db.js) closes the connections.
CloseOrder == <<"consumer", "producer", "redis">>

\* Where shutdown stands while disconnect waits for the i-th connection.
ClosingPc(i) == IF i > Len(CloseOrder) THEN "exit" ELSE CloseOrder[i]

\* SIGTERM / SIGINT: shutdown calls disconnect, which calls
\* consumer.disconnect(); the consume loop is told to stop.
Shutdown ==
  /\ shutdownPc = "none"
  /\ shutdownPc' = ClosingPc(1)
  /\ UNCHANGED <<log, offset, redis, engineVars, handlerVars, historyVars,
                 clockVars, starters, checks, closed>>

\* The i-th connection answers its disconnect / quit; consumer.disconnect()
\* answers once the batch in hand has been handled.  A rejection goes to
\* the catch of disconnect, which logs it: disconnect returns without
\* closing the connections that are left.
ConnectionCloses(i, outcome) ==
  /\ shutdownPc = ClosingPc(i)
  /\ shutdownPc # "exit"
  /\ (CloseOrder[i] = "consumer") => (pc = "idle")
  /\ IF outcome = "ok"
       THEN /\ closed' = Append(closed, CloseOrder[i])
            /\ shutdownPc' = ClosingPc(i + 1)
       ELSE /\ closed' = closed
            /\ shutdownPc' = "exit"
  /\ UNCHANGED <<log, offset, redis, engineVars, handlerVars, historyVars,
                 clockVars, starters, checks>>

\* disconnect has returned to shutdown: process.exit(0).
ProcessExit ==
  /\ shutdownPc = "exit"
  /\ shutdownPc' = "exited"
  /\ UNCHANGED <<log, offset, redis, engineVars, handlerVars, historyVars,
                 clockVars, starters, checks, closed>>

\* The consume loop hands a batch to eachBatch until it is told to stop.
EachBatchUntilShutdown == shutdownPc = "none" /\ EachBatch

\* The engine in normal mode and a shutdown request.
NextShutdown ==
  \/ \E m \in NumericMessages : PublishScoreSubmitted(m)
  \/ shutdownPc = "none" /\ StartTailing
  \/ EachBatchUntilShutdown
  \/ shutdownPc # "exited" /\ SnapshotRanks
  \/ shutdownPc # "exited" /\ HotApply
  \/ shutdownPc # "exited" /\ HotNotify
  \/ shutdownPc # "exited" /\ StandaloneApply
  \/ shutdownPc # "exited" /\ StandaloneNotify
  \/ shutdownPc # "exited" /\ EachBatchReturn
  \/ Shutdown
  \/ \E i \in 1..Len(CloseOrder), outcome \in CloseOutcomes :
       ConnectionCloses(i, outcome)
  \/ ProcessExit

SpecShutdown == InitFaults /\ [][NextShutdown]_vars

\* C35: on shutdown the consumer is disconnected first, then the producer,
\* then the store connection; all three are closed when the process exits;
\* and no store update is made after the store connection was closed.
C35_ShutdownClosesAll ==
  /\ [](/\ Len(closed) <= Len(CloseOrder)
        /\ closed = SubSeq(CloseOrder, 1, Len(closed))
        /\ (shutdownPc = "exited") => (closed = CloseOrder))
  /\ [][(redis' # redis) => (\A i \in 1..Len(closed) : closed[i] # "redis")]_vars

====
